---------------------------- MODULE Spec2Model ----------------------------
(***************************************************************************)
(* Verification model of the incremental synchronisation and signal        *)
(* pipeline of crypto_strategy: the persistence store (upsert, prune), the *)
(* gap resolver, the rate limiter, the OHLCV cleaner and validator, the    *)
(* three strategy evaluators and their indicator calculation, the batch    *)
(* fetcher, the adapter's ingestion and the screening run.                 *)
(***************************************************************************)
EXTENDS Integers, Sequences, FiniteSets, Bags, TLC

VARIABLES
    store,      \* the table crypto_data / stock_data: a bag of rows
    before,     \* the table as it was when the last store call started
    lastOp,     \* the last call made on the store and how it ended
    resolved,   \* the gap resolver's last call, while the table is as it read it
    prevResolved, \* the resolver call the last fetch and save acted on
    clock,      \* datetime.now(), in seconds
    requests,   \* RateLimiter.requests: the recorded times still kept
    admitted,   \* how many calls were recorded at each second so far
    pc,         \* where each worker thread stands in _process_request
    wake,       \* the time each sleeping worker's sleep ends
    callback,   \* how the last request.callback of each worker ended
    raw,        \* the OHLCV series handed to clean_ohlcv_data
    cleaned,    \* the series clean_ohlcv_data returned
    cleanDone,  \* whether clean_ohlcv_data has returned
    cleanPasses, \* how many times the series went through clean_ohlcv_data
    row,        \* the latest row of the data handed to a strategy
    signals,    \* the signals detect_signals returned
    detected,   \* whether detect_signals has returned
    fpc,        \* where fetch_multiple_pairs_incremental stands
    fend,       \* its end_date argument
    missing,    \* missing_dates: the start date of each pair to update
    toUpdate,   \* pairs_to_update
    batchEnd,   \* how many of pairs_to_update have been submitted
    pending,    \* the futures of the current batch not yet taken up
    running,    \* the pairs whose fetch_single_pair a pool thread is executing
    attempts,   \* how often fetch_single_pair was started for each pair in this call
    cooled,     \* whether the sleep before the next batch is over
    fstart,     \* the table as it was when the call began
    answers,    \* what the future of each pair answered: a kind of frame or a failure
    outcome,    \* how the remote call of each pair taken up ended
    fetched,    \* the pairs whose data was saved and added to all_data
    failed,     \* failed_pairs
    spc,        \* where run_screening stands
    strategyNames, \* its strategy_names argument
    symbols,    \* all_data['symbol'].unique()
    si,         \* the position of the strategy loop in strategy_names
    yi,         \* the position of the instrument loop in symbols
    stratSignals, \* signals, the list of the strategy being run
    allSignals, \* all_signals
    evals,      \* what each call of detect_signals did, in call order
    returned,   \* the value run_screening returned and the return that gave it
    updated,    \* whether run_screening called update_database_only
    validated,  \* the frame handed to validate_ohlcv_data
    validation, \* validation_result as validate_ohlcv_data returned it
    ipc,        \* where the adapter's update_database_only stands
    saveErrors, \* the save_crypto_data calls of the update that raised
    allData,    \* all_data, the rows the fetcher returned
    cleanedPairs, \* the pairs whose rows passed validation and were cleaned
    inColumns,  \* the columns of the frame handed to calculate_indicators
    outColumns, \* the columns of the frame it returned
    calc,       \* which calculation ran and whether it logged an error
    cleanInput, \* the frame handed to clean_ohlcv_data, columns and rows
    cleanOutput, \* the rows clean_ohlcv_data returned
    cleanErrors, \* the steps of the cleaning whose handler logged an exception
    cleanReturned, \* whether clean_ohlcv_data has returned
    status,     \* request.status of each request, new before it is submitted
    retryCount, \* request.retry_count
    maxRetries, \* request.max_retries
    createdAt,  \* request.created_at
    requestQueue, \* the heap list of request_queue, by request id
    activeRequests, \* the ids in active_requests
    completedRequests, \* the ids in completed_requests
    held,       \* the request each worker thread took off the queue
    invoked,    \* how often request.callback was called for each request
    sleeps,     \* the delays _handle_request_error slept for each request
    opc,        \* where execute_batch stands
    tasks,      \* the tasks execute_batch was given, with their retry_count
    taskQueue,  \* task_queues[executor_name], by position in tasks
    futureList, \* the futures list of execute_tasks, by position in tasks
    collected,  \* how many futures the collecting loop has handled
    results,    \* the results list of execute_tasks
    stats,      \* self.stats of the optimizer
    statsBefore \* self.stats when execute_batch was called

storeVars == <<store, before, lastOp>>
resolveVars == <<resolved, prevResolved>>
limiterVars == <<clock, requests, admitted, pc, wake, callback>>
cleanVars == <<raw, cleaned, cleanDone, cleanPasses>>
scoreVars == <<row, signals, detected>>
vars == <<store, before, lastOp, resolved, prevResolved,
          clock, requests, admitted, pc, wake, callback, raw, cleaned, cleanDone, cleanPasses,
          row, signals, detected,
          fpc, fend, missing, toUpdate, batchEnd, pending, running, attempts, cooled,
          fstart, answers, outcome, fetched, failed,
          spc, strategyNames, symbols, si, yi, stratSignals, allSignals, evals, returned, updated,
          validated, validation,
          ipc, allData, cleanedPairs, saveErrors,
          inColumns, outColumns, calc,
          cleanInput, cleanOutput, cleanErrors, cleanReturned,
          status, retryCount, maxRetries, createdAt, requestQueue, activeRequests, completedRequests, held, invoked, sleeps,
          opc, tasks, taskQueue, futureList, collected, results, stats, statsBefore>>
fetchVars ==
    <<fpc, fend, missing, toUpdate, batchEnd, pending, running, attempts, cooled,
      fstart, answers, outcome, fetched, failed>>
screenVars ==
    <<spc, strategyNames, symbols, si, yi, stratSignals, allSignals, evals, returned,
      updated>>
validateVars == <<validated, validation>>
ingestVars == <<ipc, allData, cleanedPairs, saveErrors>>
indicatorVars == <<inColumns, outColumns, calc>>
cleanFrameVars == <<cleanInput, cleanOutput, cleanErrors, cleanReturned>>
queueVars == <<status, retryCount, maxRetries, createdAt, requestQueue, activeRequests, completedRequests, held, invoked, sleeps>>
optimizerVars == <<opc, tasks, taskQueue, futureList, collected, results, stats, statsBefore>>

\* The variables a component's steps leave alone.
asideStore == <<limiterVars, cleanVars, scoreVars, fetchVars, screenVars, validateVars, ingestVars, indicatorVars, cleanFrameVars, queueVars, optimizerVars>>
asideLimiter == <<storeVars, resolveVars, cleanVars, scoreVars, fetchVars, screenVars, validateVars, ingestVars, indicatorVars, cleanFrameVars, queueVars, optimizerVars>>
asideClean == <<storeVars, resolveVars, limiterVars, scoreVars, fetchVars, screenVars, validateVars, ingestVars, indicatorVars, cleanFrameVars, queueVars, optimizerVars>>
asideScore == <<storeVars, resolveVars, limiterVars, cleanVars, fetchVars, screenVars, validateVars, ingestVars, indicatorVars, cleanFrameVars, queueVars, optimizerVars>>
asideFetch == <<before, lastOp, resolveVars, limiterVars, cleanVars, scoreVars, screenVars, validateVars, ingestVars, indicatorVars, cleanFrameVars, queueVars, optimizerVars>>
asideScreen == <<storeVars, resolveVars, limiterVars, cleanVars, scoreVars, fetchVars, validateVars, ingestVars, indicatorVars, cleanFrameVars, queueVars, optimizerVars>>
asideValidate == <<storeVars, resolveVars, limiterVars, cleanVars, scoreVars, fetchVars, screenVars, ingestVars, indicatorVars, cleanFrameVars, queueVars, optimizerVars>>
asideIngest == <<limiterVars, cleanVars, scoreVars, fetchVars, screenVars, validateVars, indicatorVars, cleanFrameVars, queueVars, optimizerVars>>
asideIndicator == <<storeVars, resolveVars, limiterVars, cleanVars, scoreVars, fetchVars, screenVars, validateVars, ingestVars, cleanFrameVars, queueVars, optimizerVars>>
asideCleanFrame == <<storeVars, resolveVars, limiterVars, cleanVars, scoreVars, fetchVars, screenVars, validateVars, ingestVars, indicatorVars, queueVars, optimizerVars>>
asideQueue == <<storeVars, resolveVars, limiterVars, cleanVars, scoreVars, fetchVars, screenVars, validateVars, ingestVars, indicatorVars, cleanFrameVars, optimizerVars>>
asideOptimizer == <<storeVars, resolveVars, limiterVars, cleanVars, scoreVars, fetchVars, screenVars, validateVars, ingestVars, indicatorVars, cleanFrameVars, queueVars>>

\* SQL NULL where a date TEXT is expected; no resolver call on record.
NoDate == <<>>
NoResolve == [valid |-> FALSE]

\* No call made on the store yet.
NoOp == [op |-> "none"]

\* The worker threads of the queue manager.
NumWorkers == 2
Workers == 1..NumWorkers

\* The requests a caller may submit, by id.
Requests == {"a", "b", "c"}

\* Each component as its constructor leaves it.
StoreIdle == store = EmptyBag /\ before = EmptyBag /\ lastOp = NoOp
ResolveIdle == resolved = NoResolve /\ prevResolved = NoResolve
LimiterIdle ==
    /\ clock = 0
    /\ requests = <<>>
    /\ admitted = <<>>
    /\ pc = [w \in Workers |-> "idle"]
    /\ wake = [w \in Workers |-> 0]
    /\ callback = [w \in Workers |-> "none"]
CleanIdle == raw = <<>> /\ cleaned = <<>> /\ cleanDone = FALSE /\ cleanPasses = 0
NoRow == [strategy |-> "none"]
ScoreIdle == row = NoRow /\ signals = <<>> /\ detected = FALSE
FetchIdle ==
    /\ fpc = "idle"
    /\ fend = NoDate
    /\ missing = <<>>
    /\ toUpdate = <<>>
    /\ batchEnd = 0
    /\ pending = {}
    /\ running = {}
    /\ attempts = <<>>
    /\ cooled = FALSE
    /\ fstart = <<>>
    /\ answers = <<>>
    /\ outcome = <<>>
    /\ fetched = {}
    /\ failed = <<>>
EmptyMap == [s \in {} |-> <<>>]
NoReturn == [via |-> "none", map |-> EmptyMap]
ScreenIdle ==
    /\ spc = "idle"
    /\ strategyNames = <<>>
    /\ symbols = <<>>
    /\ si = 1
    /\ yi = 1
    /\ stratSignals = <<>>
    /\ allSignals = EmptyMap
    /\ evals = <<>>
    /\ returned = NoReturn
    /\ updated = FALSE
NoFrame == [columns |-> {}, rows |-> <<>>]
NoValidation == [is_valid |-> TRUE, errors |-> {}, warnings |-> {}, done |-> FALSE]
ValidateIdle == validated = NoFrame /\ validation = NoValidation
IngestIdle ==
    ipc = "idle" /\ allData = <<>> /\ cleanedPairs = {} /\ saveErrors = {}
NoCalc == [by |-> "none", error |-> FALSE]
IndicatorIdle == inColumns = {} /\ outColumns = {} /\ calc = NoCalc
CleanFrameIdle ==
    /\ cleanInput = [columns |-> {}, rows |-> <<>>]
    /\ cleanOutput = <<>>
    /\ cleanErrors = {}
    /\ cleanReturned = FALSE
QueueIdle ==
    /\ status = [r \in Requests |-> "new"]
    /\ retryCount = [r \in Requests |-> 0]
    /\ maxRetries = [r \in Requests |-> 0]
    /\ createdAt = [r \in Requests |-> 0]
    /\ requestQueue = <<>>
    /\ activeRequests = {}
    /\ completedRequests = {}
    /\ held = [w \in Workers |-> "none"]
    /\ invoked = [r \in Requests |-> 0]
    /\ sleeps = [r \in Requests |-> <<>>]
OptimizerIdle ==
    /\ opc = "idle"
    /\ tasks = <<>>
    /\ taskQueue = <<>>
    /\ futureList = <<>>
    /\ collected = 0
    /\ results = <<>>
    /\ stats = [total_tasks |-> 0, completed_tasks |-> 0, failed_tasks |-> 0]
    /\ statsBefore = [total_tasks |-> 0, completed_tasks |-> 0, failed_tasks |-> 0]
AllIdle ==
    StoreIdle /\ ResolveIdle /\ LimiterIdle /\ CleanIdle /\ ScoreIdle /\ FetchIdle /\ ScreenIdle /\ ValidateIdle /\ IngestIdle /\ IndicatorIdle /\ CleanFrameIdle /\ QueueIdle /\ OptimizerIdle

(***************************************************************************)
(* Calendar.  A datetime is a day number (days since 1970-01-01); the TEXT *)
(* of a date, 'YYYY-MM-DD', is the triple <<y, m, d>>.  strptime and       *)
(* strftime convert between the two with the proleptic Gregorian rules.    *)
(***************************************************************************)
Strptime(t) ==
    LET y   == IF t[2] <= 2 THEN t[1] - 1 ELSE t[1]
        era == y \div 400
        yoe == y - era * 400
        mp  == IF t[2] > 2 THEN t[2] - 3 ELSE t[2] + 9
        doy == (153 * mp + 2) \div 5 + t[3] - 1
        doe == yoe * 365 + yoe \div 4 - yoe \div 100 + doy
    IN  era * 146097 + doe - 719468

Strftime(n) ==
    LET z   == n + 719468
        era == z \div 146097
        doe == z - era * 146097
        yoe == (doe - doe \div 1460 + doe \div 36524 - doe \div 146096) \div 365
        doy == doe - (365 * yoe + yoe \div 4 - yoe \div 100)
        mp  == (5 * doy + 2) \div 153
        d   == doy - (153 * mp + 2) \div 5 + 1
        m   == IF mp < 10 THEN mp + 3 ELSE mp - 9
        y   == yoe + era * 400 + (IF m <= 2 THEN 1 ELSE 0)
    IN  <<y, m, d>>

\* SQL comparison of two date TEXT values: string order, field by field.
TextLess(a, b) ==
    \/ a[1] < b[1]
    \/ a[1] = b[1] /\ a[2] < b[2]
    \/ a[1] = b[1] /\ a[2] = b[2] /\ a[3] < b[3]

(***************************************************************************)
(* Persistence store.  An incoming DataFrame is a sequence of rows         *)
(* [Date, pair, val]: Date a datetime, val standing for the OHLCV and      *)
(* indicator columns.  A stored row is [date, pair, val] with date TEXT.   *)
(***************************************************************************)
Range(s) == {s[i] : i \in DOMAIN s}

\* The key of a row: PRIMARY KEY (date, pair), against a key of the date alone.
DateAlone(r) == <<r.date>>
KeyOf(r) == <<r.date, r.pair>>

\* save_data: 'Date' replaced by date = strftime('%Y-%m-%d').
PrepareRows(df) ==
    [i \in DOMAIN df |-> [date |-> Strftime(df[i].Date), pair |-> df[i].pair,
                          val |-> df[i].val]]

\* The loop of deletes left out.
DeleteNothing(table, rows) == table

\* DELETE FROM crypto_data WHERE date = ? AND pair = ?, once per incoming row.
DeleteOld(table, rows) ==
    LET keys == {KeyOf(rows[i]) : i \in DOMAIN rows}
        keep == {r \in DOMAIN table : KeyOf(r) \notin keys}
    IN  [r \in keep |-> table[r]]

\* The rows of a DataFrame as a bag.
RowsBag(rows) ==
    [r \in Range(rows) |-> Cardinality({i \in DOMAIN rows : rows[i] = r})]

\* A table without the PRIMARY KEY clause accepts any insert.
PrimaryKeyMissing(table) == TRUE

\* PRIMARY KEY (date, pair): an insert that would leave two rows with one key
\* is rejected with an IntegrityError.
PrimaryKeyAccepts(table) ==
    /\ \A r \in DOMAIN table : table[r] = 1
    /\ Cardinality({KeyOf(r) : r \in DOMAIN table}) = Cardinality(DOMAIN table)

\* save_data.to_sql(..., if_exists='append'): all rows inserted, or the
\* IntegrityError raised.
InsertRows(table, rows) ==
    LET after == table (+) RowsBag(rows)
    IN  IF PrimaryKeyAccepts(after)
        THEN [table |-> after, raised |-> FALSE]
        ELSE [table |-> table, raised |-> TRUE]

\* The save with every statement committed as it runs: the deletes stay
\* when the insert raises.
SaveDataAutocommit(table, df) ==
    IF df = <<>>
    THEN [table |-> table, raised |-> FALSE]
    ELSE LET rows == PrepareRows(df)
             ins  == InsertRows(DeleteOld(table, rows), rows)
         IN  IF ins.raised
             THEN [table |-> DeleteOld(table, rows), raised |-> TRUE]
             ELSE ins

\* save_crypto_data / save_stock_data.  The deletes and the insert run in one
\* sqlite3 transaction: committed when the block ends, rolled back when the
\* insert raises.
SaveData(table, df) ==
    IF df = <<>>
    THEN [table |-> table, raised |-> FALSE]
    ELSE LET rows == PrepareRows(df)
             ins  == InsertRows(DeleteOld(table, rows), rows)
         IN  IF ins.raised
             THEN [table |-> table, raised |-> TRUE]
             ELSE ins

\* clean_old_data: DELETE FROM crypto_data WHERE date < cutoff_date.
CutoffDate(now, days_to_keep) == Strftime(now - days_to_keep)

DeleteBefore(table, cutoff) ==
    LET keep == {r \in DOMAIN table : ~TextLess(r.date, cutoff)}
    IN  [r \in keep |-> table[r]]

(***************************************************************************)
(* Bounds and input domains of the store specification.                    *)
(***************************************************************************)
MaxBatch == 2

Pairs == {"X", "Y"}
Vals == {1, 2}
\* 2024-05-31 and 2024-06-01 as datetimes.
StoreDays == {Strptime(<<2024, 5, 31>>), Strptime(<<2024, 6, 1>>)}
InRows == [Date : StoreDays, pair : Pairs, val : Vals]

SeqsUpTo(S, n) == UNION {[1..k -> S] : k \in 0..n}

\* The DataFrames handed to save.  Neither the deletes nor the insert depend
\* on the order of the rows, so each multiset of rows is drawn in one order.
RowRank(r) == 4 * r.Date + (IF r.pair = "X" THEN 0 ELSE 2) + r.val
DataFrames ==
    {df \in SeqsUpTo(InRows, MaxBatch) :
        \A i \in 1..(Len(df) - 1) : RowRank(df[i]) <= RowRank(df[i + 1])}

Nows == {Strptime(<<2024, 6, 2>>)}
KeepDays == {1, 2, 190}



InitStore == AllIdle

\* One call of save_crypto_data(df).  repeat: the call before this one was a
\* save of the same DataFrame that did not raise.
SaveCall(df) ==
    LET res == SaveData(store, df)
    IN  /\ store' = res.table
        /\ before' = store
        /\ lastOp' = [op |-> "save", df |-> df, raised |-> res.raised,
                      repeat |-> /\ lastOp.op = "save"
                                 /\ lastOp.df = df
                                 /\ ~lastOp.raised]

\* VACUUM run after every prune.
VacuumAlways(deleted_rows) == TRUE

\* clean_old_data: VACUUM runs on a connection of its own, after the delete
\* was committed, and only if rows were deleted.
VacuumRuns(deleted_rows) == deleted_rows > 0

\* One call of clean_old_data(days_to_keep) at time now.
PruneCall(now, days_to_keep) ==
    LET cutoff == CutoffDate(now, days_to_keep)
        after  == DeleteBefore(store, cutoff)
        deleted_rows == BagCardinality(store) - BagCardinality(after)
    IN  /\ store' = after
        /\ before' = store
        /\ lastOp' = [op |-> "prune", cutoff |-> cutoff,
                      deleted |-> deleted_rows,
                      vacuumed |-> VacuumRuns(deleted_rows)]

NextStore ==
    \/ \E df \in DataFrames : SaveCall(df) /\ UNCHANGED <<resolveVars, asideStore>>
    \/ \E now \in Nows, keep \in KeepDays :
           PruneCall(now, keep) /\ UNCHANGED <<resolveVars, asideStore>>

SpecStore == InitStore /\ [][NextStore]_vars

(***************************************************************************)
(* C1.  After any sequence of save and prune calls, whatever the overlap   *)
(* between the row sets saved, the store holds at most one row per         *)
(* (date, instrument) key.                                                 *)
(***************************************************************************)
C1_OneRowPerKey ==
    \A r1, r2 \in DOMAIN store :
        KeyOf(r1) = KeyOf(r2) => r1 = r2 /\ store[r1] = 1

\* A save whose rows overlap rows already stored has gone through.
C1_Witness ==
    /\ lastOp.op = "save" /\ ~lastOp.raised
    /\ \E r \in DOMAIN before, i \in DOMAIN lastOp.df :
           KeyOf(r) = KeyOf(PrepareRows(lastOp.df)[i])
    /\ BagCardinality(store) >= 2

(***************************************************************************)
(* C2.  A save of rows with distinct keys goes through, and then each of   *)
(* its keys has exactly one stored row, carrying the values of this (the   *)
(* latest) call; a save that repeats the previous save's rows leaves the   *)
(* store as the previous save left it.                                     *)
(***************************************************************************)
DistinctKeys(rows) ==
    \A i, j \in DOMAIN rows : KeyOf(rows[i]) = KeyOf(rows[j]) => i = j

C2_UpsertLastWins ==
    lastOp.op = "save" /\ DistinctKeys(PrepareRows(lastOp.df)) =>
        /\ ~lastOp.raised
        /\ \A i \in DOMAIN lastOp.df :
              LET saved == PrepareRows(lastOp.df)[i]
              IN  /\ {r \in DOMAIN store : KeyOf(r) = KeyOf(saved)} = {saved}
                  /\ store[saved] = 1
        /\ lastOp.repeat => store = before

\* A save has replaced a stored row by a row with the same key and another
\* value.
C2_Witness ==
    /\ lastOp.op = "save" /\ ~lastOp.raised
    /\ \E r \in DOMAIN before, i \in DOMAIN lastOp.df :
           /\ KeyOf(r) = KeyOf(PrepareRows(lastOp.df)[i])
           /\ r.val # lastOp.df[i].val
           /\ PrepareRows(lastOp.df)[i] \in DOMAIN store

\* The same non-empty DataFrame has been saved twice in a row.
C2_WitnessRepeat == lastOp.op = "save" /\ lastOp.repeat /\ lastOp.df # <<>>

(***************************************************************************)
(* Gap resolver.                                                           *)
(***************************************************************************)
\* The greatest of a non-empty set of integers.
MaxOf(S) == CHOOSE x \in S : \A y \in S : y <= x

\* SELECT MAX(date) FROM crypto_data WHERE pair = ?: the greatest date TEXT in
\* string order (year, then month, then day); NULL when no row matches.
MaxDate(table, pair) ==
    LET dates == {r.date : r \in {x \in DOMAIN table : x.pair = pair}}
        y == MaxOf({d[1] : d \in dates})
        m == MaxOf({d[2] : d \in {e \in dates : e[1] = y}})
        d == MaxOf({e[3] : e \in {f \in dates : f[1] = y /\ f[2] = m}})
    IN  IF dates = {} THEN NoDate ELSE <<y, m, d>>

\* The up-to-date test with > in place of >=.
UpToDateStrict(latest_dt, end_dt) == latest_dt > end_dt

\* if latest_dt >= end_dt: continue
UpToDate(latest_dt, end_dt) == latest_dt >= end_dt

\* update_start_dt = latest_dt + timedelta(days=1)
UpdateStart(latest_dt) == latest_dt + 1

\* The window's first day taken one day late.
LookbackStartLate(end_dt, days_back) == end_dt - days_back + 1

\* start_dt = end_dt - timedelta(days=days_back)
LookbackStart(end_dt, days_back) == end_dt - days_back

\* The stale case assigning the end of the window.
StaleStartIsEnd(start_date, end_date) == end_date

\* if update_start_dt < start_dt: update_start = start_date
StaleStart(start_date, end_date) == start_date

\* The entry get_missing_dates computes for one pair: NoDate when it adds none.
MissingStart(table, pair, end_date, days_back) ==
    LET end_dt     == Strptime(end_date)
        start_dt   == LookbackStart(end_dt, days_back)
        start_date == Strftime(start_dt)
        latest     == MaxDate(table, pair)
    IN  IF latest # NoDate
        THEN LET latest_dt       == Strptime(latest)
                 update_start_dt == UpdateStart(latest_dt)
             IN  IF UpToDate(latest_dt, end_dt) THEN NoDate
                 ELSE IF update_start_dt < start_dt
                      THEN StaleStart(start_date, end_date)
                 ELSE Strftime(update_start_dt)
        ELSE start_date

\* get_missing_dates: the dict pair -> first date to fetch.
GetMissingDates(table, pairs, end_date, days_back) ==
    LET need == {p \in pairs : MissingStart(table, p, end_date, days_back) # NoDate}
    IN  [p \in need |-> MissingStart(table, p, end_date, days_back)]

(***************************************************************************)
(* The resolver specification: resolver calls interleaved with the fetch   *)
(* and save of one pair's missing range and with prune.                    *)
(***************************************************************************)
DefaultDaysBack == 190

AsOfs == {<<2024, 6, 1>>, <<2024, 6, 4>>}
DaysBacks == {2, DefaultDaysBack}

\* The daily rows a provider returns for the days first..last.
ProviderRows(pair, first, last) ==
    [i \in 1..(last - first + 1) |->
        [Date |-> first + i - 1, pair |-> pair, val |-> 1]]

ResolveCall(end_date, days_back) ==
    /\ resolved' = [valid |-> TRUE, asOf |-> end_date, days |-> days_back,
                    latest |-> [p \in Pairs |-> MaxDate(store, p)],
                    result |-> GetMissingDates(store, Pairs, end_date, days_back)]
    /\ UNCHANGED prevResolved
    /\ UNCHANGED <<storeVars, asideStore>>

\* The fetch of one pair's missing range (fetch_single_pair) and the save of
\* what came back.  The provider's last daily row is the day before end_date
\* or end_date itself.
FetchAndSave(pair, last) ==
    /\ resolved.valid
    /\ pair \in DOMAIN resolved.result
    /\ LET start_dt == Strptime(resolved.result[pair])
           end_dt   == Strptime(resolved.asOf)
       IN  /\ ~(start_dt >= end_dt)
           /\ last \in {end_dt - 1, end_dt}
           /\ store' = SaveData(store, ProviderRows(pair, start_dt, last)).table
    /\ prevResolved' = resolved
    /\ resolved' = NoResolve
    /\ UNCHANGED <<before, lastOp, asideStore>>

InitResolve == AllIdle

NextResolve ==
    \/ \E a \in AsOfs, d \in DaysBacks : ResolveCall(a, d)
    \/ \E p \in Pairs, a \in AsOfs, back \in {0, 1} :
           FetchAndSave(p, Strptime(a) - back)

SpecResolve == InitResolve /\ [][NextResolve]_vars

(***************************************************************************)
(* C3.  For every requested instrument the resolver returns                *)
(* start = asOf - lookbackDays when the instrument has no stored row, no   *)
(* entry when its latest stored date is >= asOf, and otherwise             *)
(* start = max(latestStored + 1 day, asOf - lookbackDays).                 *)
(***************************************************************************)
DaysOf(table, pair) == {Strptime(r.date) : r \in {x \in DOMAIN table : x.pair = pair}}

C3_ResolverResult ==
    resolved.valid =>
        \A p \in Pairs :
            LET asOf   == Strptime(resolved.asOf)
                floor  == asOf - resolved.days
                days   == DaysOf(store, p)
                latest == MaxOf(days)
            IN  IF days = {}
                THEN p \in DOMAIN resolved.result
                     /\ resolved.result[p] = Strftime(floor)
                ELSE IF latest >= asOf
                THEN p \notin DOMAIN resolved.result
                ELSE p \in DOMAIN resolved.result
                     /\ resolved.result[p] =
                          Strftime(IF latest + 1 > floor THEN latest + 1 ELSE floor)

\* One call that leaves one pair out as up to date and gives the other the
\* day after its latest stored day, later than the start of the window.
C3_Witness ==
    /\ resolved.valid
    /\ \E p, q \in Pairs :
          /\ DaysOf(store, p) # {} /\ p \notin DOMAIN resolved.result
          /\ DaysOf(store, q) # {} /\ q \in DOMAIN resolved.result
          /\ Strptime(resolved.result[q]) = MaxOf(DaysOf(store, q)) + 1
          /\ Strptime(resolved.result[q]) > Strptime(resolved.asOf) - resolved.days

\* A call that finds a pair's rows older than the window and starts at the
\* window's first day.
C3_WitnessStale ==
    /\ resolved.valid
    /\ \E p \in Pairs :
          /\ DaysOf(store, p) # {} /\ p \in DOMAIN resolved.result
          /\ MaxOf(DaysOf(store, p)) + 1 < Strptime(resolved.asOf) - resolved.days
          /\ Strptime(resolved.result[p]) = Strptime(resolved.asOf) - resolved.days

(***************************************************************************)
(* C4.  As claimed: for a fixed asOf and lookbackDays, a later latest      *)
(* stored date of an instrument never comes with a later fetch start.      *)
(* C4_StartNeverIncreases states that of two resolver calls with the same  *)
(* asOf and lookbackDays, between which the instrument's latest stored     *)
(* date grew.                                                              *)
(***************************************************************************)
SameQuery(r1, r2) ==
    r1.valid /\ r2.valid /\ r1.asOf = r2.asOf /\ r1.days = r2.days

C4_StartNeverIncreases ==
    SameQuery(prevResolved, resolved) =>
        \A p \in DOMAIN prevResolved.result \cap DOMAIN resolved.result :
            /\ prevResolved.latest[p] # NoDate
            /\ TextLess(prevResolved.latest[p], resolved.latest[p])
            => ~TextLess(prevResolved.result[p], resolved.result[p])

(***************************************************************************)
(* C4 as amended.  For a fixed asOf and lookbackDays the fetch start is    *)
(* non-decreasing in the latest stored date: of two instruments with an    *)
(* entry (in one call, or in two calls with the same asOf and              *)
(* lookbackDays), the one whose latest stored date is not earlier has a    *)
(* fetch start that is not earlier.                                        *)
(***************************************************************************)
C4_StartNeverDecreases ==
    \A r1, r2 \in {prevResolved, resolved} :
        SameQuery(r1, r2) =>
            \A p \in DOMAIN r1.result, q \in DOMAIN r2.result :
                /\ r1.latest[p] # NoDate /\ r2.latest[q] # NoDate
                /\ ~TextLess(r2.latest[q], r1.latest[p])
                => ~TextLess(r2.result[q], r1.result[p])

\* Two calls with the same asOf and lookbackDays, the instrument's latest
\* stored date later at the second, and its fetch start later too.
C4_Witness ==
    /\ SameQuery(prevResolved, resolved)
    /\ \E p \in DOMAIN prevResolved.result \cap DOMAIN resolved.result :
          /\ prevResolved.latest[p] # NoDate
          /\ TextLess(prevResolved.latest[p], resolved.latest[p])
          /\ TextLess(prevResolved.result[p], resolved.result[p])

(***************************************************************************)
(* C5.  With asOf = 2024-06-01 and lookbackDays = 190 the resolver gives   *)
(* an instrument X without stored rows the start 2023-11-24; once the      *)
(* store holds X's rows for every day from 2023-11-24 through 2024-06-01,  *)
(* a resolver call with the same asOf and lookbackDays has no entry for X. *)
(***************************************************************************)
ScenarioQuery(r) == r.valid /\ r.asOf = <<2024, 6, 1>> /\ r.days = 190

HoldsFullRange(table, pair) ==
    \A n \in Strptime(<<2023, 11, 24>>)..Strptime(<<2024, 6, 1>>) :
        \E v \in Vals : [date |-> Strftime(n), pair |-> pair, val |-> v]
                            \in DOMAIN table

C5_Scenario ==
    ScenarioQuery(resolved) =>
        /\ DaysOf(store, "X") = {} =>
              /\ "X" \in DOMAIN resolved.result
              /\ resolved.result["X"] = <<2023, 11, 24>>
        /\ HoldsFullRange(store, "X") => "X" \notin DOMAIN resolved.result

\* The first call found X without rows and answered 2023-11-24, the range
\* through 2024-06-01 was fetched and saved, and the second call leaves X out.
C5_Witness ==
    /\ ScenarioQuery(prevResolved)
    /\ prevResolved.latest["X"] = NoDate
    /\ prevResolved.result["X"] = <<2023, 11, 24>>
    /\ ScenarioQuery(resolved)
    /\ HoldsFullRange(store, "X")
    /\ "X" \notin DOMAIN resolved.result

(***************************************************************************)
(* The rate limiter and the worker threads that pass requests through it.  *)
(* Time is counted in whole seconds; any number of steps may happen within *)
(* one second.                                                             *)
(***************************************************************************)
MaxRequests == 1
TimeWindow == 2
MaxClock == 4

\* self.requests after the pruning of can_make_request: the recorded times
\* with now - req_time < time_window.
Unexpired(reqs, now) == SelectSeq(reqs, LAMBDA t : now - t < TimeWindow)

MinOf(S) == CHOOSE x \in S : \A y \in S : x <= y

\* get_wait_time: max(0, min(requests) + time_window - now).
GetWaitTime(reqs, now) ==
    IF reqs = <<>> THEN 0
    ELSE LET wait_time == MinOf(Range(reqs)) + TimeWindow - now
         IN  IF wait_time > 0 THEN wait_time ELSE 0

\* can_make_request, called by a worker that took a request off the queue.
CanMakeRequest(w) ==
    /\ pc[w] = "idle"
    /\ requests' = Unexpired(requests, clock)
    /\ pc' = [pc EXCEPT ![w] = IF Len(requests') < MaxRequests
                               THEN "record" ELSE "wait"]
    /\ UNCHANGED <<clock, admitted, wake, callback>>

\* get_wait_time and the start of time.sleep(wait_time).
StartSleep(w) ==
    /\ pc[w] = "wait"
    /\ wake' = [wake EXCEPT ![w] = clock + GetWaitTime(requests, clock)]
    /\ pc' = [pc EXCEPT ![w] = "sleep"]
    /\ UNCHANGED <<clock, requests, admitted, callback>>

\* time.sleep returns once the wait has passed.
EndSleep(w) ==
    /\ pc[w] = "sleep"
    /\ clock >= wake[w]
    /\ pc' = [pc EXCEPT ![w] = "record"]
    /\ UNCHANGED <<clock, requests, admitted, wake, callback>>

\* RateLimiter.record_request: self.requests.append(datetime.now()).
RecordNothing(reqs, now) == reqs
Recorded(reqs, now) == Append(reqs, now)

\* record_request (line 213); request.callback is the next statement of the
\* worker (line 217).
RecordRequest(w) ==
    /\ pc[w] = "record"
    /\ requests' = Recorded(requests, clock)
    /\ admitted' = Append(admitted, clock)
    /\ pc' = [pc EXCEPT ![w] = "callback"]
    /\ callback' = [callback EXCEPT ![w] = "running"]
    /\ UNCHANGED <<clock, wake>>

\* request.callback returns or raises.  On a return the request is moved to
\* the completed ones; on an exception _handle_request_error puts it back on
\* the queue or marks it failed.  Neither touches the limiter, and the worker
\* goes back to the queue.
Callback(w, ok) ==
    /\ pc[w] = "callback"
    /\ callback' = [callback EXCEPT ![w] = IF ok THEN "returned" ELSE "raised"]
    /\ pc' = [pc EXCEPT ![w] = "idle"]
    /\ UNCHANGED <<clock, requests, admitted, wake>>

\* A second passes.
Tick ==
    /\ clock < MaxClock
    /\ clock' = clock + 1
    /\ UNCHANGED <<requests, admitted, pc, wake, callback>>

InitLimiter == AllIdle

NextLimiter ==
    \/ \E w \in Workers : CanMakeRequest(w) /\ UNCHANGED asideLimiter
    \/ \E w \in Workers : StartSleep(w) /\ UNCHANGED asideLimiter
    \/ \E w \in Workers : EndSleep(w) /\ UNCHANGED asideLimiter
    \/ \E w \in Workers : RecordRequest(w) /\ UNCHANGED asideLimiter
    \/ \E w \in Workers, ok \in BOOLEAN : Callback(w, ok) /\ UNCHANGED asideLimiter
    \/ Tick /\ UNCHANGED asideLimiter

SpecLimiter == InitLimiter /\ [][NextLimiter]_vars

\* The queue manager run with one worker thread (max_workers = 1): the
\* requests are processed one after the other by _worker_loop.
NextWorker ==
    \/ CanMakeRequest(1) /\ UNCHANGED asideLimiter
    \/ StartSleep(1) /\ UNCHANGED asideLimiter
    \/ EndSleep(1) /\ UNCHANGED asideLimiter
    \/ RecordRequest(1) /\ UNCHANGED asideLimiter
    \/ \E ok \in BOOLEAN : Callback(1, ok) /\ UNCHANGED asideLimiter
    \/ Tick /\ UNCHANGED asideLimiter

SpecWorker == InitLimiter /\ [][NextWorker]_vars

(***************************************************************************)
(* C6.  With any number of worker threads passing requests through one     *)
(* RateLimiter, every trailing window of time_window seconds holds at most *)
(* max_requests recorded calls.                                            *)
(***************************************************************************)
RecordedIn(now) ==
    Cardinality({i \in DOMAIN admitted :
                    admitted[i] <= now /\ now - admitted[i] < TimeWindow})

C6_Quota == \A now \in 0..clock : RecordedIn(now) <= MaxRequests

(***************************************************************************)
(* The OHLCV cleaner.  A cell is NaN or a number; numbers are counted in   *)
(* sixths of a price unit, so that the interpolations and means of the     *)
(* series drawn here are whole.                                            *)
(***************************************************************************)
NaN == <<>>
IsNaN(x) == x = NaN
Num(v) == <<v>>
Columns == {"Open", "High", "Low", "Close", "Volume"}

\* DataFrame[[...]].max(axis=1) and .min(axis=1) of one row: NaN cells are
\* skipped, and the result is NaN when every cell is NaN.
RowMax(cells) ==
    LET nums == {c[1] : c \in {x \in cells : ~IsNaN(x)}}
    IN  IF nums = {} THEN NaN ELSE Num(MaxOf(nums))

RowMin(cells) ==
    LET nums == {c[1] : c \in {x \in cells : ~IsNaN(x)}}
    IN  IF nums = {} THEN NaN ELSE Num(MinOf(nums))

\* drop_duplicates(subset=['Date'], keep='last')
DropDuplicates(data) ==
    SelectSeq([i \in DOMAIN data |->
                  [row |-> data[i],
                   last |-> \A j \in DOMAIN data : j > i => data[j].Date # data[i].Date]],
              LAMBDA e : e.last)

\* sort_values('Date').reset_index(drop=True), of rows with distinct dates
SortValues(marked) ==
    LET n == Len(marked)
        rank(i) == Cardinality({j \in 1..n : marked[j].row.Date <= marked[i].row.Date})
    IN  [k \in 1..n |-> marked[CHOOSE i \in 1..n : rank(i) = k].row]

\* _fix_price_anomalies, on one row
FixPriceRow(r) ==
    LET high1 == RowMax({r.High, r.Low})
        low1  == RowMin({high1, r.Low})
        high2 == RowMax({high1, r.Open, r.Close})
        low2  == RowMin({low1, r.Open, r.Close})
    IN  [r EXCEPT !.High = high2, !.Low = low2]

FixPriceAnomalies(data) == [i \in DOMAIN data |-> FixPriceRow(data[i])]

\* Series.interpolate(method='linear'): a NaN between two numbers lies on the
\* line through them, a NaN after the last number repeats it, and a NaN
\* before the first number stays.
Interpolate(col) ==
    [i \in DOMAIN col |->
        IF ~IsNaN(col[i]) THEN col[i]
        ELSE LET before_ == {j \in DOMAIN col : j < i /\ ~IsNaN(col[j])}
                 after_  == {j \in DOMAIN col : j > i /\ ~IsNaN(col[j])}
             IN  IF before_ = {} THEN NaN
                 ELSE LET p == MaxOf(before_)
                      IN  IF after_ = {} THEN col[p]
                          ELSE LET q == MinOf(after_)
                               IN  Num((col[p][1] * (q - i) + col[q][1] * (i - p))
                                           \div (q - p))]

RECURSIVE SumOf(_)
SumOf(nums) == IF nums = <<>> THEN 0 ELSE Head(nums) + SumOf(Tail(nums))

\* Series.fillna(Series.mean())
FillNaMean(col) ==
    LET valid == SelectSeq(col, LAMBDA x : ~IsNaN(x))
        nums  == [i \in DOMAIN valid |-> valid[i][1]]
    IN  IF valid = <<>> THEN col
        ELSE [i \in DOMAIN col |->
                 IF IsNaN(col[i]) THEN Num(SumOf(nums) \div Len(nums)) ELSE col[i]]

Column(data, c) == [i \in DOMAIN data |-> data[i][c]]
SetColumn(data, c, col) == [i \in DOMAIN data |-> [data[i] EXCEPT ![c] = col[i]]]

\* _fix_volume_anomalies
FixVolumeAnomalies(data) ==
    LET clip(x)  == IF ~IsNaN(x) /\ x[1] < 0 THEN Num(0) ELSE x
        clipped  == [i \in DOMAIN data |-> clip(data[i].Volume)]
        zeroMask == {i \in DOMAIN data : clipped[i] = Num(0)}
        replaced == [i \in DOMAIN data |-> IF i \in zeroMask THEN NaN ELSE clipped[i]]
    IN  IF zeroMask # {}
        THEN SetColumn(data, "Volume", FillNaMean(Interpolate(replaced)))
        ELSE SetColumn(data, "Volume", clipped)

\* _fill_missing_values
RECURSIVE FillColumns(_, _)
FillColumns(data, cols) ==
    IF cols = {} THEN data
    ELSE LET c == CHOOSE x \in cols : TRUE
         IN  FillColumns(SetColumn(data, c, FillNaMean(Interpolate(Column(data, c)))),
                         cols \ {c})

FillMissingValues(data) ==
    IF \E i \in DOMAIN data, c \in Columns : IsNaN(data[i][c])
    THEN FillColumns(data, Columns)
    ELSE data

\* _remove_invalid_records; one sixth of a price unit, the smallest positive
\* price here, is above the 0.000001 floor on Close.
RemoveInvalidRecords(data) ==
    SelectSeq(data, LAMBDA r :
        /\ \A c \in {"Open", "High", "Low", "Close"} : ~IsNaN(r[c]) /\ r[c][1] > 0
        /\ ~IsNaN(r.Volume) /\ r.Volume[1] >= 0)

\* clean_ohlcv_data
CleanOhlcvData(data) ==
    IF data = <<>> THEN data
    ELSE RemoveInvalidRecords(
             FillMissingValues(
                 FixVolumeAnomalies(
                     FixPriceAnomalies(SortValues(DropDuplicates(data))))))

(***************************************************************************)
(* The OHLCV validator.  A frame is the set of its column names and its    *)
(* rows; the cells are numbers or NaN (the conversion to float of line 71  *)
(* succeeds on them), and a comparison with a NaN cell is false.           *)
(***************************************************************************)
RequiredColumns == {"Date", "Open", "High", "Low", "Close", "Volume"}
Frame(rows) == [columns |-> RequiredColumns, rows |-> rows]

Lt(x, y) == ~IsNaN(x) /\ ~IsNaN(y) /\ x[1] < y[1]
Abs(n) == IF n < 0 THEN -n ELSE n

\* Lines 77-95: the checks that set is_valid to False.
ValueErrors(rows) ==
    {c \in {"Open", "High", "Low", "Close"} :
        \E i \in DOMAIN rows : ~IsNaN(rows[i][c]) /\ rows[i][c][1] <= 0}
    \cup (IF \E i \in DOMAIN rows : Lt(rows[i].Volume, Num(0))
          THEN {"Volume"} ELSE {})
    \cup (IF \E i \in DOMAIN rows : Lt(rows[i].High, rows[i].Low)
          THEN {"High < Low"} ELSE {})

\* Lines 97-105: High below Open or Close, Low above them.
OhlcWarnings(rows) ==
    {c \in {"Open", "Close"} : \E i \in DOMAIN rows : Lt(rows[i].High, rows[i][c])}
    \cup {c \in {"Open", "Close"} : \E i \in DOMAIN rows : Lt(rows[i][c], rows[i].Low)}

\* _check_price_anomalies: a close more than 50% away from the one before.
\* (No close of the series drawn here is under the 0.000001 floor unless it
\* is zero or negative.)
PriceWarnings(rows) ==
    (IF \E i \in DOMAIN rows :
           /\ i > 1 /\ ~IsNaN(rows[i].Close) /\ ~IsNaN(rows[i - 1].Close)
           /\ 2 * Abs(rows[i].Close[1] - rows[i - 1].Close[1])
                  > Abs(rows[i - 1].Close[1])
     THEN {"large change"} ELSE {})
    \cup (IF \E i \in DOMAIN rows : Lt(rows[i].Close, Num(1))
          THEN {"low price"} ELSE {})

\* _check_volume_anomalies: zero volumes.  (A z-score above 5 needs a series
\* of 27 rows or more.)
VolumeWarnings(rows) ==
    IF \E i \in DOMAIN rows : rows[i].Volume = Num(0) THEN {"zero volume"} ELSE {}

\* _check_time_series: the dates out of order or more than 3 days apart are
\* warnings, a repeated date is an error.
TimeWarnings(rows) ==
    (IF \E i \in DOMAIN rows : i > 1 /\ rows[i].Date < rows[i - 1].Date
     THEN {"unsorted"} ELSE {})
    \cup (IF \E i \in DOMAIN rows : i > 1 /\ rows[i].Date - rows[i - 1].Date > 3
          THEN {"gap"} ELSE {})

\* The check of repeated dates left out.
NoDuplicateCheck(rows) == FALSE

DuplicatedDates(rows) ==
    \E i, j \in DOMAIN rows : i < j /\ rows[i].Date = rows[j].Date

\* validate_ohlcv_data
ValidateOhlcvData(frame) ==
    IF frame.rows = <<>>
    THEN [is_valid |-> FALSE, errors |-> {"empty"}, warnings |-> {}, done |-> TRUE]
    ELSE IF ~(RequiredColumns \subseteq frame.columns)
    THEN [is_valid |-> FALSE, errors |-> {"missing columns"}, warnings |-> {},
          done |-> TRUE]
    ELSE LET errors == ValueErrors(frame.rows)
                         \cup (IF DuplicatedDates(frame.rows)
                               THEN {"duplicate dates"} ELSE {})
         IN  [is_valid |-> errors = {},
              errors   |-> errors,
              warnings |-> OhlcWarnings(frame.rows) \cup PriceWarnings(frame.rows)
                             \cup VolumeWarnings(frame.rows)
                             \cup TimeWarnings(frame.rows),
              done     |-> TRUE]

\* The row of the worked example: open 100, high 95, low 105, close 102,
\* volume -5 (in sixths: 600, 570, 630, 612, -30).
ScenarioRow(d) ==
    [Date |-> d, Open |-> Num(600), High |-> Num(570), Low |-> Num(630),
     Close |-> Num(612), Volume |-> Num(-30)]

MaxLen == 2
Dates == {1, 2}
Prices == {NaN, Num(6), Num(18)}
Volumes == {NaN, Num(-6), Num(0), Num(12)}
OhlcvRows ==
    [Date : Dates, Open : Prices, High : Prices, Low : {Num(6)},
     Close : {Num(12)}, Volume : Volumes]
        \cup {ScenarioRow(d) : d \in Dates}
SeriesSet == SeqsUpTo(OhlcvRows, MaxLen)

InitClean ==
    /\ StoreIdle /\ ResolveIdle /\ LimiterIdle /\ ScoreIdle /\ FetchIdle /\ ScreenIdle /\ ValidateIdle /\ IngestIdle /\ IndicatorIdle /\ CleanFrameIdle /\ QueueIdle /\ OptimizerIdle
    /\ raw \in SeriesSet
    /\ cleaned = <<>>
    /\ cleanDone = FALSE
    /\ cleanPasses = 0

Clean ==
    /\ ~cleanDone
    /\ cleaned' = CleanOhlcvData(raw)
    /\ cleanDone' = TRUE
    /\ cleanPasses' = 1
    /\ UNCHANGED raw
    /\ UNCHANGED asideClean

\* clean_ohlcv_data called on the series it returned.
MaxPasses == 2
CleanAgain ==
    /\ cleanDone
    /\ cleanPasses < MaxPasses
    /\ raw' = cleaned
    /\ cleaned' = CleanOhlcvData(cleaned)
    /\ cleanPasses' = cleanPasses + 1
    /\ UNCHANGED cleanDone
    /\ UNCHANGED asideClean

\* validate_ohlcv_data called on the series clean_ohlcv_data returned.
ValidateCleaned ==
    /\ cleanDone
    /\ ~validation.done
    /\ validated' = Frame(cleaned)
    /\ validation' = ValidateOhlcvData(Frame(cleaned))
    /\ UNCHANGED asideValidate

NextClean == Clean \/ CleanAgain \/ ValidateCleaned

SpecClean == InitClean /\ [][NextClean]_vars

(***************************************************************************)
(* C7.  Every row clean_ohlcv_data returns has high >= max(open, close),   *)
(* low <= min(open, close) and volume >= 0.                                *)
(***************************************************************************)
RowSound(r) ==
    /\ \A c \in Columns : ~IsNaN(r[c])
    /\ r.High[1] >= r.Open[1] /\ r.High[1] >= r.Close[1]
    /\ r.Low[1] <= r.Open[1] /\ r.Low[1] <= r.Close[1]
    /\ r.Volume[1] >= 0

C7_CleanerInvariant ==
    cleanDone => \A i \in DOMAIN cleaned : RowSound(cleaned[i])

(***************************************************************************)
(* The strategies' signal detection on the latest row of an instrument's   *)
(* data.  Prices are whole units, volumes thousands, standard deviations   *)
(* thousandths, and every comparison with a decimal threshold is made on   *)
(* the cross-multiplied integers.  A moving average or an ATR that has no  *)
(* value yet is NaN.                                                       *)
(***************************************************************************)
\* Coiled-Spring configuration.
VolatilityThresholdPct == 30
VolatilityContractPct == 50
VolumeContractPct == 55
TrendDaysThreshold == 60
TrendPeriod == 120
MinPrice == 10
MinVolume == 500

\* calculate_indicators, the five conditions on the latest row
VolatilityCheck(r) ==
    r.high_60 > 0 /\ 100 * (r.high_60 - r.low_60) > VolatilityThresholdPct * r.high_60
PriceContract(r) == 100 * r.sd_10 < VolatilityContractPct * r.sd_60
MaAlignment(r) ==
    /\ ~IsNaN(r.ema_20) /\ ~IsNaN(r.sma_50) /\ ~IsNaN(r.sma_100)
    /\ r.ema_20[1] > r.sma_50[1]
    /\ r.sma_50[1] > r.sma_100[1]
UpTrend6mo(r) == r.price_up_6mo_days > TrendDaysThreshold
VolContract(r) == 100 * r.vol_10 < VolumeContractPct * r.vol_60

\* The test of the five conditions without the volume contraction.
FourConditions(r) ==
    VolatilityCheck(r) /\ PriceContract(r) /\ MaAlignment(r) /\ UpTrend6mo(r)

\* detect_signals: the test of the five conditions
FiveConditions(r) ==
    /\ VolatilityCheck(r)
    /\ PriceContract(r)
    /\ MaAlignment(r)
    /\ UpTrend6mo(r)
    /\ VolContract(r)

\* volume_ratio <= pct / 100, where volume_ratio = vol_10 / vol_60 if
\* vol_60 > 0 else 1.0
CoiledVolumeRatioAtMost(r, pct) ==
    IF r.vol_60 > 0 THEN 100 * r.vol_10 <= pct * r.vol_60 ELSE 100 <= pct

\* up_trend_strength > pct / 100, where up_trend_strength =
\* price_up_6mo_days / trend_period
UpTrendStrengthAbove(r, pct) == 100 * r.price_up_6mo_days > pct * TrendPeriod

\* CoiledSpringStrategy._calculate_signal_score
CoiledSignalScore(r) ==
    LET volatility_score ==
            IF r.sd_10 <= 10 THEN 40
            ELSE IF r.sd_10 <= 20 THEN 30
            ELSE IF r.sd_10 <= 30 THEN 20
            ELSE IF r.sd_10 <= 50 THEN 10
            ELSE 0
        trend_score ==
            (IF MaAlignment(r) THEN 15 ELSE 0)
            + (IF UpTrendStrengthAbove(r, 60) THEN 15
               ELSE IF UpTrendStrengthAbove(r, 55) THEN 10
               ELSE IF UpTrendStrengthAbove(r, 50) THEN 5
               ELSE 0)
        volume_score ==
            IF CoiledVolumeRatioAtMost(r, 40) THEN 20
            ELSE IF CoiledVolumeRatioAtMost(r, 50) THEN 15
            ELSE IF CoiledVolumeRatioAtMost(r, 60) THEN 10
            ELSE IF CoiledVolumeRatioAtMost(r, 70) THEN 5
            ELSE 0
        history ==
            IF r.sd_60 > 400 THEN 10 ELSE IF r.sd_60 > 300 THEN 5 ELSE 0
    IN  [volatility_score |-> volatility_score,
         trend_score      |-> trend_score,
         volume_score     |-> volume_score,
         total_score      |-> history + volatility_score + trend_score + volume_score]

\* CoiledSpringStrategy.detect_signals
CoiledSignals(r) ==
    IF r.len < TrendPeriod THEN <<>>
    ELSE IF \/ r.Close < MinPrice
            \/ r.Volume < MinVolume
            \/ IsNaN(r.ema_20) \/ IsNaN(r.sma_50) \/ IsNaN(r.sma_100)
    THEN <<>>
    ELSE IF FiveConditions(r)
    THEN LET scores == CoiledSignalScore(r)
         IN  <<[strategy         |-> "coiled_spring",
                total_score      |-> scores.total_score,
                volatility_score |-> scores.volatility_score,
                trend_score      |-> scores.trend_score,
                volume_score     |-> scores.volume_score]>>
    ELSE <<>>

\* The latest row of a series with what the indicators hold for it; len is
\* the number of rows and fired_before tells whether the evaluator's firing
\* condition held on a row before the latest, which no evaluator reads.
CoiledRows ==
    [strategy : {"coiled_spring"}, len : {119, 120}, fired_before : BOOLEAN,
     Close : {9, 12}, Volume : {499, 600},
     ema_20 : {NaN, Num(11), Num(12)}, sma_50 : {Num(11)},
     sma_100 : {Num(10), Num(11)},
     sd_10 : {10, 200}, sd_60 : {20, 300, 500},
     vol_10 : {400, 540, 550}, vol_60 : {1000},
     price_up_6mo_days : {60, 61, 73},
     high_60 : {100}, low_60 : {60, 70}]

CoiledDetect ==
    /\ ~detected
    /\ row.strategy = "coiled_spring"
    /\ signals' = CoiledSignals(row)
    /\ detected' = TRUE
    /\ UNCHANGED row
    /\ UNCHANGED asideScore

\* Turtle and BNF configuration.
TurtleLookbackDays == 60
BnfMinPeriods == 30
DeviationThresholdPct == -20

\* The 20-day maximum over the rows before the latest only.
High20Shifted(r) == r.high_prev19

\* TurtleStrategy.calculate_indicators on the latest row: the rolling maxima
\* of High take in the latest row itself.
High20(r) == IF r.High > r.high_prev19 THEN r.High ELSE r.high_prev19
High55(r) == IF r.High > r.high_prev54 THEN r.High ELSE r.high_prev54

\* TurtleStrategy._calculate_signal_score, for the breakout level bh
TurtleSignalScore(r, bh) ==
    LET above == 100 * (r.Close - bh)
        breakout_score ==
            IF bh > 0 /\ 0 < above /\ above <= 2 * bh THEN 40
            ELSE IF bh > 0 /\ 2 * bh < above /\ above <= 5 * bh THEN 30
            ELSE IF bh > 0 /\ 5 * bh < above /\ above <= 10 * bh THEN 15
            ELSE 5
        volume_score ==
            IF 10 * r.Volume >= 20 * r.volume_20 THEN 35
            ELSE IF 10 * r.Volume >= 15 * r.volume_20 THEN 28
            ELSE IF 10 * r.Volume >= 12 * r.volume_20 THEN 20
            ELSE 12
        change == 100 * (r.Close - r.close_5)
        momentum_score ==
            IF change > 5 * r.close_5 THEN 25
            ELSE IF change > 3 * r.close_5 THEN 20
            ELSE IF change > 1 * r.close_5 THEN 15
            ELSE IF change > 0 THEN 8
            ELSE 0
    IN  [breakout_score |-> breakout_score,
         volume_score   |-> volume_score,
         momentum_score |-> momentum_score,
         total_score    |-> breakout_score + volume_score + momentum_score]

\* TurtleStrategy._create_turtle_signal
CreateTurtleSignal(r, signal_type, bh) ==
    LET scores == TurtleSignalScore(r, bh)
    IN  [strategy       |-> "turtle",
         signal_type    |-> signal_type,
         total_score    |-> scores.total_score,
         breakout_score |-> scores.breakout_score,
         volume_score   |-> scores.volume_score,
         momentum_score |-> scores.momentum_score]

\* TurtleStrategy.detect_signals
TurtleSignals(r) ==
    IF r.len < TurtleLookbackDays THEN <<>>
    ELSE IF r.Close < MinPrice THEN <<>>
    ELSE IF r.Volume < MinVolume THEN <<>>
    ELSE IF IsNaN(r.atr) \/ r.atr[1] <= 0 THEN <<>>
    ELSE (IF r.Close > High20(r)
          THEN <<CreateTurtleSignal(r, "system1_entry", High20(r))>> ELSE <<>>)
         \o (IF r.Close > High55(r)
             THEN <<CreateTurtleSignal(r, "system2_entry", High55(r))>> ELSE <<>>)

TurtleRows ==
    [strategy : {"turtle"}, len : {59, 60}, fired_before : BOOLEAN,
     Close : {9, 101, 103, 105, 108, 120}, High : {95, 100, 110},
     high_prev19 : {100}, high_prev54 : {100, 115},
     Volume : {499, 1200, 1500, 2000}, volume_20 : {1000},
     close_5 : {100, 103}, atr : {NaN, Num(0), Num(2)}]

TurtleDetect ==
    /\ ~detected
    /\ row.strategy = "turtle"
    /\ signals' = TurtleSignals(row)
    /\ detected' = TRUE
    /\ UNCHANGED row
    /\ UNCHANGED asideScore

\* BNFStrategy._calculate_signal_score, with deviation_rate =
\* (Close - ma25) / ma25 and volume_ratio = Volume / volume_20
BnfSignalScore(r) ==
    LET dev == 100 * (r.Close - r.ma25[1])
        ma  == r.ma25[1]
        deviation_score ==
            IF dev <= -25 * ma THEN 60
            ELSE IF dev <= -23 * ma THEN 50
            ELSE IF dev <= -21 * ma THEN 40
            ELSE IF dev <= -20 * ma THEN 30
            ELSE 0
        volume_score ==
            IF 10 * r.Volume >= 20 * r.volume_20 THEN 40
            ELSE IF 10 * r.Volume >= 15 * r.volume_20 THEN 30
            ELSE IF 10 * r.Volume >= 12 * r.volume_20 THEN 20
            ELSE IF 10 * r.Volume >= 10 * r.volume_20 THEN 10
            ELSE 5
    IN  [deviation_score |-> deviation_score,
         volume_score    |-> volume_score,
         total_score     |-> deviation_score + volume_score]

\* The buy test with < in place of <=.
BnfBuyStrict(r) ==
    100 * (r.Close - r.ma25[1]) < DeviationThresholdPct * r.ma25[1]

\* The buy test taken on any row of the series.
BnfBoughtOnAnyRow(r) ==
    r.fired_before \/ 100 * (r.Close - r.ma25[1]) <= DeviationThresholdPct * r.ma25[1]

\* if last_row['deviation_rate'] <= self.config['deviation_threshold'], with
\* deviation_rate = (Close - ma25) / ma25
BnfBuyCondition(r) ==
    100 * (r.Close - r.ma25[1]) <= DeviationThresholdPct * r.ma25[1]

\* BNFStrategy.detect_signals
BnfSignals(r) ==
    IF r.len < BnfMinPeriods THEN <<>>
    ELSE IF r.Close < MinPrice THEN <<>>
    ELSE IF r.Volume < MinVolume THEN <<>>
    ELSE IF IsNaN(r.ma25) THEN <<>>
    ELSE IF BnfBuyCondition(r)
    THEN LET scores == BnfSignalScore(r)
         IN  <<[strategy        |-> "bnf",
                total_score     |-> scores.total_score,
                deviation_score |-> scores.deviation_score,
                volume_score    |-> scores.volume_score]>>
    ELSE <<>>

BnfRows ==
    [strategy : {"bnf"}, len : {29, 30}, fired_before : BOOLEAN,
     Close : {9, 75, 78, 79, 80, 81, 90}, Volume : {499, 900, 1200, 2000},
     volume_20 : {1000}, ma25 : {NaN, Num(100)}]

BnfDetect ==
    /\ ~detected
    /\ row.strategy = "bnf"
    /\ signals' = BnfSignals(row)
    /\ detected' = TRUE
    /\ UNCHANGED row
    /\ UNCHANGED asideScore

InitScore ==
    /\ StoreIdle /\ ResolveIdle /\ LimiterIdle /\ CleanIdle /\ FetchIdle /\ ScreenIdle /\ ValidateIdle /\ IngestIdle /\ IndicatorIdle /\ CleanFrameIdle /\ QueueIdle /\ OptimizerIdle
    /\ row \in CoiledRows \cup TurtleRows \cup BnfRows
    /\ signals = <<>>
    /\ detected = FALSE

NextScore == CoiledDetect \/ TurtleDetect \/ BnfDetect

SpecScore == InitScore /\ [][NextScore]_vars

(***************************************************************************)
(* C8.  For every signal the Turtle, BNF and Coiled-Spring evaluators      *)
(* emit, the named sub-score fields of the signal add up to its            *)
(* total_score.                                                            *)
(***************************************************************************)
NamedSubScores(sig) ==
    IF sig.strategy = "turtle"
    THEN sig.breakout_score + sig.volume_score + sig.momentum_score
    ELSE IF sig.strategy = "bnf"
    THEN sig.deviation_score + sig.volume_score
    ELSE sig.volatility_score + sig.trend_score + sig.volume_score

C8_ScoreSum ==
    detected => \A i \in DOMAIN signals :
                    NamedSubScores(signals[i]) = signals[i].total_score

\* The same of the Turtle and BNF signals alone.
C8_TurtleBnfScoreSum ==
    detected /\ row.strategy # "coiled_spring" =>
        \A i \in DOMAIN signals :
            NamedSubScores(signals[i]) = signals[i].total_score

(***************************************************************************)
(* C9.  When the latest row meets exactly four of the five Coiled-Spring   *)
(* conditions (3-month volatility above the floor, price contraction, MA   *)
(* alignment, up-trend day count, volume contraction; each a strict        *)
(* inequality), the evaluator emits no signal.                             *)
(***************************************************************************)
ConditionsMet(r) ==
    Cardinality({c \in 1..5 :
        \/ c = 1 /\ 100 * (r.high_60 - r.low_60) > 30 * r.high_60
        \/ c = 2 /\ 2 * r.sd_10 < r.sd_60
        \/ c = 3 /\ ~IsNaN(r.ema_20) /\ r.ema_20[1] > r.sma_50[1]
                 /\ r.sma_50[1] > r.sma_100[1]
        \/ c = 4 /\ r.price_up_6mo_days > 60
        \/ c = 5 /\ 100 * r.vol_10 < 55 * r.vol_60})

C9_FourOfFiveNoSignal ==
    detected /\ row.strategy = "coiled_spring" /\ ConditionsMet(row) = 4
        => signals = <<>>

\* A row long, liquid and priced enough to be tested, meeting four of the
\* five conditions, that the evaluator has answered with no signal.
C9_Witness ==
    /\ detected /\ row.strategy = "coiled_spring"
    /\ row.len >= 120 /\ row.Close >= 10 /\ row.Volume >= 500
    /\ ~IsNaN(row.ema_20)
    /\ ConditionsMet(row) = 4
    /\ signals = <<>>

\* A row meeting all five conditions, answered with one signal.
C9_WitnessSignal ==
    /\ detected /\ row.strategy = "coiled_spring"
    /\ ConditionsMet(row) = 5
    /\ Len(signals) = 1

(***************************************************************************)
(* The incremental batch fetch: fetch_multiple_pairs_incremental and the   *)
(* futures of fetch_single_pair it takes up as they complete.              *)
(***************************************************************************)
BatchSize == 3
MaxWorkers == 2
Universe == {"W", "X", "Y", "Z"}
PairLists ==
    {l \in SeqsUpTo(Universe, 1) : l # <<>>}
        \cup {<<"X", "Y">>, <<"X", "Y", "Z">>, <<"Y", "X", "Z", "W">>}
        \cup {<<"X", "X">>, <<"X", "Y", "Z", "X">>}
FetchEnds == {<<2024, 6, 1>>}
FetchDaysBacks == {2}

\* The ways a remote call fails: it raises, returns nothing, or returns a
\* frame without the required columns.
RemoteFailures == {"raises", "empty", "missing_columns"}

\* The frames a remote call can return for the days first..last: the days up
\* to the day before last, the days up to last, and a frame that repeats a day.
PayloadKinds == {"through_eve", "through_end", "repeats_day"}
Payload(pair, first, last, kind) ==
    IF kind = "through_eve" THEN ProviderRows(pair, first, last - 1)
    ELSE IF kind = "through_end" THEN ProviderRows(pair, first, last)
    ELSE ProviderRows(pair, first, last) \o ProviderRows(pair, last, last)

\* The loop leaving the batch after the first future it takes up.
DropBatch(futures, pair) == {}

\* for future in as_completed(...): the futures left after this one
TakeUp(futures, pair) == futures \ {pair}

\* pairs_to_update = list(missing_dates.keys()): the keys of a dict in the
\* order they were first inserted, each once, whatever the list of pairs
\* repeats.
PairsAsGiven(pairs, missing_dates) ==
    SelectSeq(pairs, LAMBDA x : x \in DOMAIN missing_dates)
PairsToUpdate(pairs, missing_dates) ==
    LET marked == [i \in DOMAIN pairs |->
                      [pair |-> pairs[i],
                       first |-> \A j \in DOMAIN pairs : j < i => pairs[j] # pairs[i]]]
        keys == SelectSeq(marked, LAMBDA e : e.first /\ e.pair \in DOMAIN missing_dates)
    IN  [i \in DOMAIN keys |-> keys[i].pair]

\* The call, up to the first batch: get_missing_dates and the early return
\* when no pair needs an update.
StartFetch(pairs, end_date, days_back) ==
    /\ fpc \in {"idle", "returned", "raised"}
    /\ LET missing_dates == GetMissingDates(store, Range(pairs), end_date, days_back)
       IN  /\ missing' = missing_dates
           /\ toUpdate' = PairsToUpdate(pairs, missing_dates)
           /\ fpc' = IF DOMAIN missing_dates = {} THEN "returned" ELSE "running"
    /\ fend' = end_date
    /\ batchEnd' = 0
    /\ pending' = {}
    /\ running' = {}
    /\ attempts' = [p \in Range(pairs) |-> 0]
    /\ cooled' = FALSE
    /\ fstart' = store
    /\ answers' = <<>>
    /\ outcome' = <<>>
    /\ fetched' = {}
    /\ failed' = <<>>
    /\ UNCHANGED store
    /\ UNCHANGED asideFetch

\* time.sleep(5) at the head of every round of the batch loop but the first
\* (lines 104-106).
Cooldown ==
    /\ fpc = "running"
    /\ pending = {}
    /\ 0 < batchEnd /\ batchEnd < Len(toUpdate)
    /\ ~cooled
    /\ cooled' = TRUE
    /\ UNCHANGED <<fpc, fend, missing, toUpdate, batchEnd, pending, running, attempts,
                   fstart, answers, outcome, fetched, failed, store>>
    /\ UNCHANGED asideFetch

\* One round of the batch loop: the next batch_size pairs are submitted to a
\* new ThreadPoolExecutor.
StartBatch ==
    /\ fpc = "running"
    /\ pending = {}
    /\ batchEnd < Len(toUpdate)
    /\ batchEnd > 0 => cooled
    /\ cooled' = FALSE
    /\ LET batch_end == IF batchEnd + BatchSize < Len(toUpdate)
                        THEN batchEnd + BatchSize ELSE Len(toUpdate)
       IN  /\ pending' = {toUpdate[i] : i \in (batchEnd + 1)..batch_end}
           /\ batchEnd' = batch_end
    /\ UNCHANGED <<fpc, fend, missing, toUpdate, running, attempts, fstart, answers,
                   outcome, fetched, failed, store>>
    /\ UNCHANGED asideFetch

\* ThreadPoolExecutor(max_workers=self.max_workers): a work item starts when
\* fewer than max_workers threads are busy.
WorkerAlwaysFree(busy) == TRUE
WorkerFree(busy) == Cardinality(busy) < MaxWorkers

\* The work items of the executor waiting for a thread, and the one at the
\* head of its queue: the items are queued in the order of submission.
Queued == pending \ running
Submitted(p) == MinOf({i \in DOMAIN toUpdate : toUpdate[i] = p})
HeadOfQueue ==
    CHOOSE p \in Queued : \A q \in Queued : Submitted(p) <= Submitted(q)

\* A pool thread starts fetch_single_pair for the next pair submitted.  The
\* pool goes on doing so while the executor shuts down after an exception.
StartWorker ==
    /\ fpc \in {"running", "raising"}
    /\ Queued # {}
    /\ WorkerFree(running)
    /\ running' = running \cup {HeadOfQueue}
    /\ attempts' = [attempts EXCEPT ![HeadOfQueue] = @ + 1]
    /\ UNCHANGED <<fpc, fend, missing, toUpdate, batchEnd, pending, cooled, fstart,
                   answers, outcome, fetched, failed, store>>
    /\ UNCHANGED asideFetch

\* fetch_single_pair answered (None, pair): the pair joins failed_pairs.
FutureFailed(pair, how) ==
    /\ fpc = "running"
    /\ pair \in running
    /\ IF Strptime(missing[pair]) >= Strptime(fend)
       THEN how = "invalid_range"
       ELSE how \in RemoteFailures
    /\ failed' = Append(failed, pair)
    /\ outcome' = (pair :> how) @@ outcome
    /\ answers' = (pair :> how) @@ answers
    /\ pending' = TakeUp(pending, pair)
    /\ running' = running \ {pair}
    /\ UNCHANGED <<fpc, fend, missing, toUpdate, batchEnd, attempts, cooled, fstart,
                   fetched, store>>
    /\ UNCHANGED asideFetch

\* fetch_single_pair answered with a frame: save_crypto_data, then the frame
\* joins all_data; an exception of the save leaves the loop, and the with
\* block waits for the futures still pending before the call raises.
FutureFetched(pair, kind) ==
    /\ fpc = "running"
    /\ pair \in running
    /\ Strptime(missing[pair]) < Strptime(fend)
    /\ LET df  == Payload(pair, Strptime(missing[pair]), Strptime(fend), kind)
           res == SaveData(store, df)
       IN  /\ store' = res.table
           /\ IF res.raised
              THEN /\ fpc' = IF pending = {pair} THEN "raised" ELSE "raising"
                   /\ pending' = pending \ {pair}
                   /\ outcome' = (pair :> "save_raises") @@ outcome
                   /\ UNCHANGED fetched
              ELSE /\ fetched' = fetched \cup {pair}
                   /\ pending' = TakeUp(pending, pair)
                   /\ outcome' = (pair :> "fetched") @@ outcome
                   /\ UNCHANGED fpc
    /\ running' = running \ {pair}
    /\ answers' = (pair :> kind) @@ answers
    /\ UNCHANGED <<fend, missing, toUpdate, batchEnd, attempts, cooled, fstart, failed>>
    /\ UNCHANGED asideFetch

\* A future of the batch ends while the executor shuts down: nobody takes its
\* result up.
FutureDropped(pair, answer) ==
    /\ fpc = "raising"
    /\ pair \in running
    /\ IF Strptime(missing[pair]) >= Strptime(fend)
       THEN answer = "invalid_range"
       ELSE answer \in RemoteFailures \cup PayloadKinds
    /\ answers' = (pair :> answer) @@ answers
    /\ running' = running \ {pair}
    /\ pending' = pending \ {pair}
    /\ fpc' = IF pending = {pair} THEN "raised" ELSE "raising"
    /\ UNCHANGED <<fend, missing, toUpdate, batchEnd, attempts, cooled, fstart, outcome,
                   fetched, failed, store>>
    /\ UNCHANGED asideFetch

\* The batch loop is over: load_crypto_data and return.
ReturnFetch ==
    /\ fpc = "running"
    /\ pending = {}
    /\ batchEnd = Len(toUpdate)
    /\ fpc' = "returned"
    /\ UNCHANGED <<fend, missing, toUpdate, batchEnd, pending, running, attempts, cooled,
                   fstart, answers, outcome, fetched, failed, store>>
    /\ UNCHANGED asideFetch

InitFetch == AllIdle

NextFetch ==
    \/ \E l \in PairLists, e \in FetchEnds, d \in FetchDaysBacks : StartFetch(l, e, d)
    \/ Cooldown
    \/ StartBatch
    \/ StartWorker
    \/ \E p \in Universe, how \in RemoteFailures \cup {"invalid_range"} : FutureFailed(p, how)
    \/ \E p \in Universe, kind \in PayloadKinds : FutureFetched(p, kind)
    \/ \E p \in Universe, a \in RemoteFailures \cup PayloadKinds \cup {"invalid_range"} :
           FutureDropped(p, a)
    \/ ReturnFetch

SpecFetch == InitFetch /\ [][NextFetch]_vars

(***************************************************************************)
(* C10.  In fetch_multiple_pairs_incremental a remote call that raises,    *)
(* returns an empty payload or lacks required columns makes a failure of   *)
(* its own instrument only: when the call returns, every requested         *)
(* instrument (every entry of missing_dates) was taken up, is in exactly   *)
(* one of the saved successes and the failures list, is in the failures    *)
(* list exactly when its own remote call failed or its range was invalid,  *)
(* and has its rows in the store when its remote call succeeded.           *)
(***************************************************************************)
C10_NoPartialBatchAbort ==
    fpc = "returned" =>
        /\ DOMAIN outcome = DOMAIN missing
        /\ \A p \in DOMAIN missing :
              /\ (p \in fetched) # (p \in Range(failed))
              /\ p \in Range(failed) <=> outcome[p] \in RemoteFailures \cup {"invalid_range"}
              /\ p \in fetched <=> outcome[p] = "fetched"
              /\ p \in fetched => \E r \in DOMAIN store :
                                      r.pair = p /\ ~TextLess(r.date, missing[p])
        /\ \A i, j \in DOMAIN failed : failed[i] = failed[j] => i = j

\* A call over two batches has returned: the first pair's remote call raised,
\* a pair of the same batch and the pair of the next batch were saved.
C10_Witness ==
    /\ fpc = "returned"
    /\ Len(toUpdate) = BatchSize + 1
    /\ outcome[toUpdate[1]] = "raises"
    /\ toUpdate[2] \in fetched
    /\ toUpdate[BatchSize + 1] \in fetched

(***************************************************************************)
(* C11.  When the BNF pre-checks pass (enough rows, close and volume at    *)
(* their minimum, MA25 known), a signal is emitted for the latest row if   *)
(* and only if (close - MA25) / MA25 <= -0.20, the threshold included;     *)
(* with MA25 = 100, close = 79 fires and close = 81 does not.              *)
(***************************************************************************)
BnfPreChecks(r) ==
    r.len >= 30 /\ r.Close >= 10 /\ r.Volume >= 500 /\ ~IsNaN(r.ma25)

C11_BnfFiringRule ==
    detected /\ row.strategy = "bnf" /\ BnfPreChecks(row) =>
        /\ Len(signals) = 1 <=> 5 * (row.Close - row.ma25[1]) <= -row.ma25[1]
        /\ Len(signals) \in {0, 1}
        /\ row.ma25 = Num(100) /\ row.Close = 79 => Len(signals) = 1
        /\ row.ma25 = Num(100) /\ row.Close = 81 => signals = <<>>

\* The row with MA25 = 100 and close = 79 has fired.
C11_Witness ==
    /\ detected /\ row.strategy = "bnf" /\ BnfPreChecks(row)
    /\ row.ma25 = Num(100) /\ row.Close = 79
    /\ Len(signals) = 1

\* The row with MA25 = 100 and close = 81 was answered with no signal.
C11_WitnessQuiet ==
    /\ detected /\ row.strategy = "bnf" /\ BnfPreChecks(row)
    /\ row.ma25 = Num(100) /\ row.Close = 81
    /\ signals = <<>>

(***************************************************************************)
(* The screening run.  run_screening refreshes the table when asked to,    *)
(* loads the instrument list and the rows of the window, and then runs     *)
(* every requested strategy over every instrument that has rows: the       *)
(* strategy's calculate_indicators and detect_signals are called once per  *)
(* instrument, the signals of a strategy are sorted by total score and     *)
(* put in all_signals under the strategy's name.  The whole body stands in *)
(* one try block whose handler returns the empty map.  Both strategy       *)
(* methods have a try block of their own: calculate_indicators returns the *)
(* frame and detect_signals returns the list it has built so far.          *)
(***************************************************************************)
MaxNames == 2
Registered == {"turtle", "bnf"}
StrategyNames == Registered \cup {"unknown"}
StrategyNameLists ==
    {ns \in SeqsUpTo(StrategyNames, MaxNames) :
        ns # <<>> /\ \A i, j \in DOMAIN ns : ns[i] = ns[j] => i = j}
SymbolLists == {<<"X", "Y">>, <<"Y", "Z", "X">>}

\* How the refresh and the two loads before the strategy loop end.
Preludes == {"update_failed", "no_symbols", "load_raises", "no_data", "loaded"}

\* What happens inside the two strategy calls for one instrument: an
\* exception in calculate_indicators, and in detect_signals an exception
\* before a signal is appended, no signal, or one signal of some score.
EvalOutcomes ==
    [indicators : {"ok", "error"}, detect : {"error", "quiet", "signal"},
     score : {50, 80}]

\* detect_signals as its caller sees it: the list returned and whether an
\* exception left the method.
DetectUncaught(symbol, o) ==
    [signals |-> IF o.detect = "signal"
                 THEN <<[symbol |-> symbol, total_score |-> o.score]>>
                 ELSE <<>>,
     raised |-> o.detect = "error"]

DetectSignals(symbol, o) ==
    [signals |-> IF o.detect = "signal"
                 THEN <<[symbol |-> symbol, total_score |-> o.score]>>
                 ELSE <<>>,
     raised |-> FALSE]

\* list.sort(key=total_score, reverse=True): stable, highest score first.
RECURSIVE SortByScore(_)
SortByScore(s) ==
    IF s = <<>> THEN <<>>
    ELSE LET top == MaxOf({s[i].total_score : i \in DOMAIN s})
         IN  SelectSeq(s, LAMBDA x : x.total_score = top)
                 \o SortByScore(SelectSeq(s, LAMBDA x : x.total_score # top))

\* Lines 164-213: the prelude; every early return gives the empty map.
\* update: force_update was given, or the stored data is stale and
\* skip_update was not given, so that update_database_only is called.
StartScreening(names, update, prelude, syms) ==
    /\ spc = "idle"
    /\ prelude = "update_failed" => update
    /\ strategyNames' = names
    /\ updated' = update
    /\ IF prelude = "loaded"
       THEN /\ spc' = "evaluating"
            /\ symbols' = syms
            /\ returned' = returned
       ELSE /\ spc' = "returned"
            /\ symbols' = symbols
            /\ returned' = [via |-> IF prelude = "load_raises" THEN "except"
                                    ELSE "early",
                            map |-> EmptyMap]
    /\ UNCHANGED <<si, yi, stratSignals, allSignals, evals>>

\* Lines 216-218: a name that is not registered is skipped.
SkipStrategy ==
    /\ spc = "evaluating"
    /\ si <= Len(strategyNames)
    /\ strategyNames[si] \notin Registered
    /\ si' = si + 1
    /\ UNCHANGED <<spc, strategyNames, symbols, yi, stratSignals, allSignals,
                   evals, returned, updated>>

\* Lines 225-238: the body of the instrument loop for one instrument.  An
\* exception that leaves detect_signals reaches the handler of lines
\* 259-263.
EvaluateInstrument(o) ==
    /\ spc = "evaluating"
    /\ si <= Len(strategyNames)
    /\ strategyNames[si] \in Registered
    /\ yi <= Len(symbols)
    /\ LET r == DetectSignals(symbols[yi], o)
       IN  /\ evals' = Append(evals, [strategy |-> strategyNames[si],
                                      symbol |-> symbols[yi],
                                      detect |-> o.detect,
                                      score |-> IF o.detect = "signal"
                                                THEN o.score ELSE 0])
           /\ IF r.raised
              THEN /\ spc' = "returned"
                   /\ returned' = [via |-> "except", map |-> EmptyMap]
                   /\ UNCHANGED <<yi, stratSignals>>
              ELSE /\ stratSignals' = stratSignals \o r.signals
                   /\ yi' = yi + 1
                   /\ UNCHANGED <<spc, returned>>
    /\ UNCHANGED <<strategyNames, symbols, si, allSignals, updated>>

\* Lines 240-244: the instrument loop is over.
FinishStrategy ==
    /\ spc = "evaluating"
    /\ si <= Len(strategyNames)
    /\ strategyNames[si] \in Registered
    /\ yi > Len(symbols)
    /\ allSignals' = [s \in DOMAIN allSignals \cup {strategyNames[si]} |->
                        IF s = strategyNames[si] THEN SortByScore(stratSignals)
                        ELSE allSignals[s]]
    /\ si' = si + 1
    /\ yi' = 1
    /\ stratSignals' = <<>>
    /\ UNCHANGED <<spc, strategyNames, symbols, evals, returned, updated>>

\* Lines 246-257: the reports (each catches its own exceptions) and the
\* return of all_signals.
ReturnScreening ==
    /\ spc = "evaluating"
    /\ si > Len(strategyNames)
    /\ spc' = "returned"
    /\ returned' = [via |-> "completed", map |-> allSignals]
    /\ UNCHANGED <<strategyNames, symbols, si, yi, stratSignals, allSignals, evals,
                   updated>>

InitScreen == AllIdle

NextScreen ==
    \/ \E names \in StrategyNameLists, update \in BOOLEAN, prelude \in Preludes,
          syms \in SymbolLists :
           StartScreening(names, update, prelude, syms) /\ UNCHANGED asideScreen
    \/ SkipStrategy /\ UNCHANGED asideScreen
    \/ \E o \in EvalOutcomes : EvaluateInstrument(o) /\ UNCHANGED asideScreen
    \/ FinishStrategy /\ UNCHANGED asideScreen
    \/ ReturnScreening /\ UNCHANGED asideScreen

SpecScreen == InitScreen /\ [][NextScreen]_vars

(***************************************************************************)
(* C12.  run_screening never ends in an exception because of one          *)
(* instrument: it always returns a map.  Once the rows are loaded, an      *)
(* error while one instrument is evaluated gives no signal for that        *)
(* instrument and touches nothing else: the run returns through its last   *)
(* line, every registered strategy asked for has an entry, every           *)
(* instrument was evaluated under it, and the entry holds exactly the      *)
(* signals the instruments that did not fail gave, highest score first.    *)
(***************************************************************************)
SignalsFor(s, y) == SelectSeq(returned.map[s], LAMBDA x : x.symbol = y)

EvalsFor(s, y) ==
    SelectSeq(evals, LAMBDA e : e.strategy = s /\ e.symbol = y)

C13_CleanIdempotent == cleanPasses >= 2 => cleaned = raw

\* The second pass does leave alone what the first one made sound.
C13_SoundStays ==
    cleanPasses >= 2 /\ (\A i \in DOMAIN raw : RowSound(raw[i])) => cleaned = raw

(***************************************************************************)
(* C14.  Whatever series holds the raw row open 100, high 95, low 105,     *)
(* close 102, volume -5, clean_ohlcv_data keeps that row, with a high of   *)
(* at least 102, a low of at most 100 and a volume that is zero or an      *)
(* interpolated non-negative number, and the cleaned series passes         *)
(* validate_ohlcv_data.                                                    *)
(***************************************************************************)
ScenarioKept(d) ==
    \E i \in DOMAIN cleaned :
        /\ cleaned[i].Date = d
        /\ cleaned[i].Open = Num(600) /\ cleaned[i].Close = Num(612)
        /\ ~IsNaN(cleaned[i].High) /\ cleaned[i].High[1] >= 612
        /\ ~IsNaN(cleaned[i].Low) /\ cleaned[i].Low[1] <= 600
        /\ ~IsNaN(cleaned[i].Volume) /\ cleaned[i].Volume[1] >= 0

C14_ScenarioRepaired ==
    \A d \in Dates :
        /\ cleanPasses = 1
        /\ validation.done /\ validated = Frame(cleaned)
        /\ ScenarioRow(d) \in Range(raw)
        => ScenarioKept(d) /\ validation.is_valid

\* The same when the scenario row is the only row of its date and another
\* row of the series has a positive volume to fill from.
C14_ScenarioWithNeighbour ==
    \A d \in Dates :
        /\ cleanPasses = 1
        /\ validation.done /\ validated = Frame(cleaned)
        /\ ScenarioRow(d) \in Range(raw)
        /\ \E i \in DOMAIN raw : raw[i].Date # d /\ Lt(Num(0), raw[i].Volume)
        => ScenarioKept(d) /\ validation.is_valid

(***************************************************************************)
(* Ingestion.  The adapter's update_database_only has the fetcher download *)
(* the missing rows; the fetcher saves each pair's rows as the provider    *)
(* returned them and hands back what the table then holds.  The adapter    *)
(* validates each pair's rows, cleans them when they are valid, computes   *)
(* the indicators, saves the rows again and prunes the table.  Here one    *)
(* pair is updated into an empty table; val is the record of the OHLCV     *)
(* cells, which are numbers with a positive volume, so that the cleaner    *)
(* removes no row.                                                         *)
(***************************************************************************)
MaxIngest == 2
IngestPrices == {Num(6), Num(18)}
IngestRows ==
    {[Date |-> d, pair |-> "X", val |-> v] :
        d \in StoreDays,
        v \in [Open : IngestPrices, High : IngestPrices, Low : IngestPrices,
               Close : IngestPrices, Volume : {Num(12)}]}

\* get_ohlcv_dataframe: one row per day, in time order.
ProviderFrames ==
    {df \in SeqsUpTo(IngestRows, MaxIngest) :
        df # <<>> /\ \A i \in 1..(Len(df) - 1) : df[i].Date < df[i + 1].Date}

\* load_crypto_data: SELECT ... ORDER BY pair, date (one pair here), 'date'
\* read back as the Timestamp column 'Date'.
LoadCryptoData(table) ==
    LET rows == DOMAIN table
        rank(r) == Cardinality({q \in rows : q = r \/ TextLess(q.date, r.date)})
    IN  [k \in 1..Cardinality(rows) |->
            LET r == CHOOSE q \in rows : rank(q) = k
            IN  [Date |-> Strptime(r.date), pair |-> r.pair, val |-> r.val]]

\* The OHLCV columns of a pair's rows, and back.
OhlcvOf(df) ==
    [i \in DOMAIN df |->
        [Date |-> df[i].Date, Open |-> df[i].val.Open, High |-> df[i].val.High,
         Low |-> df[i].val.Low, Close |-> df[i].val.Close,
         Volume |-> df[i].val.Volume]]

PairRows(pair, data) ==
    [i \in DOMAIN data |->
        [Date |-> data[i].Date, pair |-> pair,
         val |-> [Open |-> data[i].Open, High |-> data[i].High,
                  Low |-> data[i].Low, Close |-> data[i].Close,
                  Volume |-> data[i].Volume]]]

\* _validate_and_clean_data for one pair: cleaned only when valid.
ValidateAndCleanData(df) ==
    IF ValidateOhlcvData(Frame(OhlcvOf(df))).is_valid
    THEN PairRows("X", CleanOhlcvData(OhlcvOf(df)))
    ELSE df

\* What save_crypto_data does when the storage layer may be unavailable:
\* sqlite3.connect or a statement raises OperationalError and the table is
\* left as it was.
SaveOrFault(table, df, fault) ==
    IF fault /\ df # <<>>
    THEN [table |-> table, raised |-> TRUE]
    ELSE SaveData(table, df)

\* fetch_multiple_pairs_incremental for the pair: save_crypto_data of the
\* provider's rows (line 121), then load_crypto_data (line 128).  A failing
\* save is not handled by the fetcher and ends update_database_only in its
\* outer handler (adapter lines 139-142), which returns False.
FetchIncremental(df, fault) ==
    /\ ipc = "idle"
    /\ LET res == SaveOrFault(store, df, fault)
       IN  /\ store' = res.table
           /\ ipc' = IF res.raised THEN "failed" ELSE "fetched"
           /\ allData' = IF res.raised THEN <<>> ELSE LoadCryptoData(res.table)
           /\ saveErrors' = IF res.raised THEN {"fetcher"} ELSE {}
    /\ UNCHANGED <<before, lastOp, cleanedPairs>>

\* Lines 98-127 of the adapter: validate and clean, save the pair's rows,
\* clean_old_data(days_to_keep=190).  The save stands inside the pair's
\* try block (lines 111-122): an exception of it is logged as a warning, the
\* loop goes on, and the method returns True (line 137).
ValidateCleanSave(now, fault) ==
    /\ ipc = "fetched"
    /\ LET validated_data == ValidateAndCleanData(allData)
           res == SaveOrFault(store, validated_data, fault)
       IN  /\ store' = DeleteBefore(res.table, CutoffDate(now, DefaultDaysBack))
           /\ saveErrors' = IF res.raised THEN {"adapter"} ELSE {}
           /\ cleanedPairs' =
                  IF ValidateOhlcvData(Frame(OhlcvOf(allData))).is_valid
                  THEN {"X"} ELSE {}
    /\ ipc' = "done"
    /\ UNCHANGED <<before, lastOp, allData>>

InitIngest == AllIdle

NextIngest ==
    \/ \E df \in ProviderFrames, fault \in BOOLEAN :
           FetchIncremental(df, fault) /\ UNCHANGED <<resolveVars, asideIngest>>
    \/ \E now \in Nows, fault \in BOOLEAN :
           ValidateCleanSave(now, fault) /\ UNCHANGED <<resolveVars, asideIngest>>

SpecIngest == InitIngest /\ [][NextIngest]_vars

(***************************************************************************)
(* C15.  Every row in the store has high >= max(open, close) and           *)
(* low <= min(open, close), whatever the provider returned.                *)
(***************************************************************************)
StoredRowSound(r) ==
    /\ r.val.High[1] >= r.val.Open[1] /\ r.val.High[1] >= r.val.Close[1]
    /\ r.val.Low[1] <= r.val.Open[1] /\ r.val.Low[1] <= r.val.Close[1]

C15_StoredRowsSound == \A r \in DOMAIN store : StoredRowSound(r)

\* Not even once the update is over.
C15_SoundAfterUpdate == ipc = "done" => C15_StoredRowsSound

\* The rows of a pair that passed validation and were saved are sound once the update is
\* over.
C15_SoundWhenCleaned ==
    ipc = "done" /\ cleanedPairs = {"X"} /\ saveErrors = {} => C15_StoredRowsSound

(***************************************************************************)
(* C16.  A single call of save is atomic.  When it fails (the batch holds  *)
(* two rows with one key) the table is exactly as it was before the call.  *)
(* When it does not fail, every row of the batch is in the table, the rows *)
(* of other keys are untouched and nothing else was added.                 *)
(***************************************************************************)
SavedRows == PrepareRows(lastOp.df)
SavedKeys == {KeyOf(SavedRows[i]) : i \in DOMAIN SavedRows}

C16_SaveAtomic ==
    lastOp.op = "save" =>
        IF lastOp.raised
        THEN store = before
        ELSE /\ \A i \in DOMAIN SavedRows :
                    BagIn(SavedRows[i], store) /\ CopiesIn(SavedRows[i], store) = 1
             /\ \A r \in DOMAIN before :
                    KeyOf(r) \notin SavedKeys =>
                        BagIn(r, store) /\ CopiesIn(r, store) = CopiesIn(r, before)
             /\ \A r \in DOMAIN store :
                    r \in Range(SavedRows) \/ (BagIn(r, before) /\ KeyOf(r) \notin SavedKeys)

\* A failed save whose deletes had a stored row to remove.
C16_Witness ==
    /\ lastOp.op = "save"
    /\ lastOp.raised
    /\ \E r \in DOMAIN before : KeyOf(r) \in SavedKeys
    /\ store = before

\* A save that went through and replaced a stored row.
C16_WitnessSaved ==
    /\ lastOp.op = "save"
    /\ ~lastOp.raised
    /\ \E r \in DOMAIN before : KeyOf(r) \in SavedKeys /\ ~BagIn(r, store)

(***************************************************************************)
(* C17.  A prune compacts the store (VACUUM) exactly when it deleted at    *)
(* least one row; a prune that deletes nothing compacts nothing and leaves *)
(* every row as it was.                                                    *)
(***************************************************************************)
OldRows == {r \in DOMAIN before : TextLess(r.date, lastOp.cutoff)}

C17_VacuumIffDeleted ==
    lastOp.op = "prune" =>
        /\ lastOp.vacuumed <=> OldRows # {}
        /\ lastOp.vacuumed <=> store # before
        /\ OldRows = {} => store = before /\ ~lastOp.vacuumed

C17_Witness ==
    /\ lastOp.op = "prune"
    /\ OldRows # {}
    /\ lastOp.vacuumed
    /\ store # before

C17_WitnessNoOp ==
    /\ lastOp.op = "prune"
    /\ before # EmptyBag
    /\ OldRows = {}
    /\ ~lastOp.vacuumed
    /\ store = before

(***************************************************************************)
(* Indicator calculation.  A frame is the set of its column names.  Each   *)
(* calculate_indicators assigns its derived columns to the frame one       *)
(* statement after the other inside one try block; a statement that reads  *)
(* a column the frame does not have raises KeyError, and the handler       *)
(* returns the frame.  A step is the column assigned, the columns read,    *)
(* and for the guarded steps of bnf the column whose presence skips them.  *)
(***************************************************************************)
Step(col, needs) == [col |-> col, needs |-> needs, unless |-> ""]
StepUnless(col, needs, unless) == [col |-> col, needs |-> needs, unless |-> unless]

TurtleSteps ==
    << Step("atr", {"High", "Low", "Close"}),
       Step("high_20", {"High"}), Step("low_10", {"Low"}),
       Step("high_55", {"High"}), Step("low_20", {"Low"}),
       Step("volume_20", {"Volume"}),
       Step("volume_ratio", {"Volume", "volume_20"}),
       Step("price_change_5d", {"Close"}), Step("price_change_20d", {"Close"}),
       Step("rsi", {"Close"}),
       Step("system1_breakout", {"Close", "high_20"}),
       Step("system2_breakout", {"Close", "high_55"}) >>

BnfSteps ==
    << Step("ma25", {"Close"}),
       Step("deviation_rate", {"Close", "ma25"}),
       Step("bnf_buy_signal", {"deviation_rate"}),
       StepUnless("volume_20", {"Volume"}, "volume_ratio"),
       StepUnless("volume_ratio", {"Volume", "volume_20"}, "volume_ratio") >>

CoiledSteps ==
    << Step("ema_20", {"Close"}), Step("sma_50", {"Close"}),
       Step("sma_100", {"Close"}),
       Step("sd_10", {"Close"}), Step("sd_60", {"Close"}),
       Step("vol_10", {"Volume"}), Step("vol_60", {"Volume"}),
       Step("price_up", {"Close"}),
       Step("price_up_6mo_days", {"price_up"}),
       Step("high_60", {"High"}), Step("low_60", {"Low"}),
       Step("diff_percentage_3mo", {"high_60", "low_60"}),
       Step("volatility_check", {"diff_percentage_3mo"}),
       Step("price_contract", {"sd_10", "sd_60"}),
       Step("ma_alignment", {"ema_20", "sma_50", "sma_100"}),
       Step("up_trend_6mo", {"price_up_6mo_days"}),
       Step("vol_contract", {"vol_10", "vol_60"}) >>

StepsOf(strategy) ==
    CASE strategy = "turtle" -> TurtleSteps
      [] strategy = "bnf" -> BnfSteps
      [] strategy = "coiled_spring" -> CoiledSteps

DerivedColumns(strategy) == {s.col : s \in Range(StepsOf(strategy))}

\* The try block of calculate_indicators: the statements in order, up to the
\* first that raises.
RECURSIVE RunSteps(_, _)
RunSteps(columns, steps) ==
    IF steps = <<>> THEN [columns |-> columns, error |-> FALSE]
    ELSE LET s == Head(steps)
         IN  IF s.unless \in columns /\ s.unless # ""
             THEN RunSteps(columns, Tail(steps))
             ELSE IF ~(s.needs \subseteq columns)
             THEN [columns |-> columns, error |-> TRUE]
             ELSE RunSteps(columns \cup {s.col}, Tail(steps))

\* calculate_indicators of one strategy.
CalculateIndicators(strategy, columns) == RunSteps(columns, StepsOf(strategy))

\* _calculate_all_indicators: the three strategies in turn on a copy of the
\* frame; each catches its own error, so the adapter's handler sees none.
CalculateAllIndicators(columns) ==
    LET t == CalculateIndicators("turtle", columns)
        b == CalculateIndicators("bnf", t.columns)
        c == CalculateIndicators("coiled_spring", b.columns)
    IN  [columns |-> c.columns, error |-> t.error \/ b.error \/ c.error]

SourceColumns == {"Date", "Open", "High", "Low", "Close", "Volume"}
IndicatorStrategies == {"turtle", "bnf", "coiled_spring"}

\* The frame handed in, when it is not empty.
GiveFrame(columns) ==
    /\ calc = NoCalc
    /\ inColumns = {}
    /\ inColumns' = columns
    /\ UNCHANGED <<outColumns, calc>>

Calculate(strategy) ==
    /\ calc = NoCalc
    /\ inColumns # {}
    /\ LET res == CalculateIndicators(strategy, inColumns)
       IN  /\ outColumns' = res.columns
           /\ calc' = [by |-> strategy, error |-> res.error]
    /\ UNCHANGED inColumns

CalculateAll ==
    /\ calc = NoCalc
    /\ inColumns # {}
    /\ LET res == CalculateAllIndicators(inColumns)
       IN  /\ outColumns' = res.columns
           /\ calc' = [by |-> "all", error |-> res.error]
    /\ UNCHANGED inColumns

InitIndicator == AllIdle

NextIndicator ==
    \/ \E columns \in (SUBSET SourceColumns) \ {{}} :
           GiveFrame(columns) /\ UNCHANGED asideIndicator
    \/ \E strategy \in IndicatorStrategies :
           Calculate(strategy) /\ UNCHANGED asideIndicator
    \/ CalculateAll /\ UNCHANGED asideIndicator

SpecIndicator == InitIndicator /\ [][NextIndicator]_vars

(***************************************************************************)
(* C18.  Indicator calculation is all-or-nothing: when an error occurs at  *)
(* any step, the frame returned has the columns of the input and no        *)
(* derived column; a frame never comes back with only some of the derived  *)
(* columns.                                                                *)
(***************************************************************************)
DerivedBy(by) ==
    IF by = "all"
    THEN UNION {DerivedColumns(s) : s \in IndicatorStrategies}
    ELSE DerivedColumns(by)

C18_AllOrNothing ==
    calc.by # "none" =>
        /\ calc.error => outColumns = inColumns
        /\ \/ outColumns = inColumns
           \/ DerivedBy(calc.by) \subseteq outColumns

\* What does hold: the source columns are kept, and without an error every
\* derived column is there.
C18_NoErrorAllColumns ==
    calc.by # "none" =>
        /\ inColumns \subseteq outColumns
        /\ ~calc.error => DerivedBy(calc.by) \subseteq outColumns

(***************************************************************************)
(* C19.  A fetch request whose start date is on or after its end date is   *)
(* rejected before it is submitted to the worker pool (it is never among   *)
(* the futures of a batch), and no remote call is made for it.             *)
(***************************************************************************)
InvalidRange(p) == Strptime(missing[p]) >= Strptime(fend)

C19_RejectedBeforeSubmit ==
    /\ \A p \in pending : ~InvalidRange(p)
    /\ \A p \in DOMAIN outcome : InvalidRange(p) => outcome[p] = "invalid_range"

\* The half that holds: the worker answers such a request without a remote
\* call, and the pair joins failed_pairs.
C19_NoRemoteCall ==
    \A p \in DOMAIN outcome :
        InvalidRange(p) => outcome[p] = "invalid_range" /\ p \in Range(failed)

C19_WitnessRejected ==
    \E p \in DOMAIN outcome : InvalidRange(p) /\ outcome[p] = "invalid_range"

(***************************************************************************)
(* validate_ohlcv_data on its own.  The frames handed in have every        *)
(* required column or lack one, and up to MaxRows rows, each one of a few  *)
(* shapes of row on one of three dates.                                    *)
(***************************************************************************)
MaxRows == 2
ValidateDates == {1, 2, 6}
RowShapes ==
    { [Open |-> Num(12), High |-> Num(18), Low |-> Num(6),  Close |-> Num(12), Volume |-> Num(12)],
      [Open |-> Num(0),  High |-> Num(18), Low |-> Num(0),  Close |-> Num(12), Volume |-> Num(12)],
      [Open |-> Num(12), High |-> Num(18), Low |-> Num(-6), Close |-> Num(12), Volume |-> Num(12)],
      [Open |-> Num(12), High |-> Num(18), Low |-> Num(6),  Close |-> Num(12), Volume |-> Num(-6)],
      [Open |-> Num(12), High |-> Num(6),  Low |-> Num(12), Close |-> Num(12), Volume |-> Num(12)],
      [Open |-> Num(18), High |-> Num(12), Low |-> Num(6),  Close |-> Num(12), Volume |-> Num(12)],
      [Open |-> Num(12), High |-> Num(18), Low |-> Num(12), Close |-> Num(6),  Volume |-> Num(12)],
      [Open |-> Num(12), High |-> Num(18), Low |-> Num(6),  Close |-> Num(12), Volume |-> Num(0)],
      [Open |-> NaN,     High |-> Num(18), Low |-> Num(6),  Close |-> Num(12), Volume |-> NaN],
      [Open |-> Num(6),  High |-> Num(18), Low |-> Num(6),  Close |-> Num(6),  Volume |-> Num(12)] }
ValidateRows ==
    {[Date |-> d, Open |-> s.Open, High |-> s.High, Low |-> s.Low,
      Close |-> s.Close, Volume |-> s.Volume] : d \in ValidateDates, s \in RowShapes}
ValidateColumns ==
    {RequiredColumns, RequiredColumns \ {"Volume"}, RequiredColumns \ {"Date"}}
ValidateFrames ==
    [columns : ValidateColumns, rows : SeqsUpTo(ValidateRows, MaxRows)]

InitValidate ==
    /\ StoreIdle /\ ResolveIdle /\ LimiterIdle /\ CleanIdle /\ ScoreIdle /\ CleanFrameIdle /\ QueueIdle /\ OptimizerIdle
    /\ FetchIdle /\ ScreenIdle /\ IngestIdle /\ IndicatorIdle
    /\ validated \in ValidateFrames
    /\ validation = NoValidation

Validate ==
    /\ ~validation.done
    /\ validation' = ValidateOhlcvData(validated)
    /\ UNCHANGED validated
    /\ UNCHANGED asideValidate

NextValidate == Validate

SpecValidate == InitValidate /\ [][NextValidate]_vars

(***************************************************************************)
(* C20.  validate_ohlcv_data reports valid = false if and only if the      *)
(* series has a missing required column, a non-positive price, a negative  *)
(* volume, a duplicate date or a row with high < low; the warning          *)
(* conditions alone leave valid = true.                                    *)
(***************************************************************************)
HasListedError(frame) ==
    \/ \E c \in RequiredColumns : c \notin frame.columns
    \/ \E i \in DOMAIN frame.rows :
        LET r == frame.rows[i]
        IN  \/ \E c \in {"Open", "High", "Low", "Close"} : r[c] # NaN /\ r[c][1] <= 0
            \/ r.Volume # NaN /\ r.Volume[1] < 0
            \/ r.High # NaN /\ r.Low # NaN /\ r.High[1] < r.Low[1]
            \/ \E j \in DOMAIN frame.rows : j # i /\ frame.rows[j].Date = r.Date

C20_WitnessWarnings ==
    /\ validation.done
    /\ validation.is_valid
    /\ {"Open", "zero volume", "large change", "unsorted", "gap"}
           \cap validation.warnings # {}
    /\ Cardinality(validation.warnings) >= 3

(***************************************************************************)
(* C21.  A run asked for a strategy name that is not registered is a fatal *)
(* configuration error: it aborts before any fetch (update_database_only   *)
(* is not called) and computes no signal for any strategy.                 *)
(***************************************************************************)
UnknownAsked == \E i \in DOMAIN strategyNames : strategyNames[i] \notin Registered

C21_UnknownNameAborts ==
    spc # "idle" /\ UnknownAsked =>
        /\ ~updated
        /\ evals = <<>>
        /\ spc = "returned" => returned.map = EmptyMap /\ returned.via # "completed"

\* What the code does with such a name: it is passed over, and the
\* registered strategies of the list are run as if it were not there.
C21_UnknownNameSkipped ==
    spc = "returned" /\ returned.via = "completed" /\ UnknownAsked =>
        /\ DOMAIN returned.map = Range(strategyNames) \cap Registered
        /\ \A s \in DOMAIN returned.map, y \in Range(symbols) :
               Len(EvalsFor(s, y)) = 1

C21_WitnessSkipped ==
    /\ spc = "returned" /\ returned.via = "completed" /\ UnknownAsked
    /\ updated
    /\ \E s \in DOMAIN returned.map : returned.map[s] # <<>>


(***************************************************************************)
(* C22: a persistence error during a run is fatal for that run: once a     *)
(* save has raised, update_database_only ends as a failure (it returns     *)
(* False) and never as a completed update.                                 *)
(***************************************************************************)
C22_SaveErrorFatal == saveErrors # {} => ipc = "failed"

\* What the code does hold to: a save that raises in the fetcher ends the
\* update as a failure, and nothing has been stored by it.
C22_FetcherSaveFatal ==
    "fetcher" \in saveErrors => ipc = "failed" /\ store = EmptyMap

\* The update completed although the save of the pair's rows had raised.
C22_WitnessSwallowed == ipc = "done" /\ saveErrors = {"adapter"}


(***************************************************************************)
(* C23: signal uniqueness.  detect_signals looks at the latest row of one  *)
(* instrument only, so the signals of one call all carry that instrument   *)
(* and that date: a call never returns more than one signal.               *)
(***************************************************************************)
C23_OneSignalPerDate == detected => Len(signals) <= 1

\* The strategies other than Turtle return at most one signal per call, and
\* Turtle returns two exactly when the close is above the 55 day high: the
\* 20 day high is never above the 55 day high, so a system 2 breakout is a
\* system 1 breakout too.
C23_TwoIffSystem2 ==
    detected =>
        /\ row.strategy # "turtle" => Len(signals) <= 1
        /\ row.strategy = "turtle" /\ signals # <<>> =>
               (Len(signals) = 2 <=> row.Close > High55(row))

C23_WitnessTwo ==
    /\ detected /\ row.strategy = "turtle" /\ Len(signals) = 2
    /\ signals[1].signal_type = "system1_entry"
    /\ signals[2].signal_type = "system2_entry"


(***************************************************************************)
(* clean_ohlcv_data on a frame that may lack columns.  A row is a function *)
(* on the frame's columns.  data[c] of a column the frame does not have    *)
(* raises KeyError: in a step of the cleaning it is caught by the step's   *)
(* own handler, which logs a warning and returns the frame as the lines    *)
(* before the KeyError left it.                                            *)
(***************************************************************************)
Stepped(data, raised) == [data |-> data, failed |-> raised]

\* _fix_price_anomalies: lines 260-261 read High and Low, lines 264 and 267
\* read Open and Close as well.
FixPriceStep(columns, data) ==
    IF ~({"High", "Low"} \subseteq columns) THEN Stepped(data, TRUE)
    ELSE LET first(r) ==
                 LET high1 == RowMax({r.High, r.Low})
                 IN  [r EXCEPT !.High = high1, !.Low = RowMin({high1, r.Low})]
         IN  IF ~({"Open", "Close"} \subseteq columns)
             THEN Stepped([i \in DOMAIN data |-> first(data[i])], TRUE)
             ELSE Stepped(FixPriceAnomalies(data), FALSE)

\* _fix_volume_anomalies: line 278 reads Volume.
FixVolumeStep(columns, data) ==
    IF "Volume" \notin columns THEN Stepped(data, TRUE)
    ELSE Stepped(FixVolumeAnomalies(data), FALSE)

\* _fill_missing_values: only the numeric columns the frame has are filled
\* (line 305), so nothing raises.  Every Date cell holds a date.
FillMissingStep(columns, data) ==
    IF \E i \in DOMAIN data, c \in columns \ {"Date"} : IsNaN(data[i][c])
    THEN Stepped(FillColumns(data, Columns \cap columns), FALSE)
    ELSE Stepped(data, FALSE)

\* _remove_invalid_records: data is filtered column by column (lines 321-326),
\* and the filters that ran before a KeyError stay applied.
RemoveChecks == <<"Open", "High", "Low", "Close", "Volume">>

RECURSIVE RemoveStep(_, _, _)
RemoveStep(columns, data, checks) ==
    IF checks = <<>> THEN Stepped(data, FALSE)
    ELSE LET c == Head(checks)
             keep(r) == /\ ~IsNaN(r[c])
                        /\ IF c = "Volume" THEN r[c][1] >= 0 ELSE r[c][1] > 0
         IN  IF c \notin columns THEN Stepped(data, TRUE)
             ELSE RemoveStep(columns, SelectSeq(data, keep), Tail(checks))

\* clean_ohlcv_data: drop_duplicates(subset=['Date']) raises KeyError on a
\* frame without Date, and the handler of lines 252-254 returns data.
CleanOhlcvFrame(frame) ==
    LET columns == frame.columns
        data == frame.rows
    IN  IF data = <<>> THEN [rows |-> data, errors |-> {}]
        ELSE IF "Date" \notin columns
        THEN [rows |-> data, errors |-> {"clean_ohlcv_data"}]
        ELSE LET s3 == FixPriceStep(columns, SortValues(DropDuplicates(data)))
                 s4 == FixVolumeStep(columns, s3.data)
                 s5 == FillMissingStep(columns, s4.data)
                 s6 == RemoveStep(columns, s5.data, RemoveChecks)
             IN  [rows |-> s6.data,
                  errors |->
                      (IF s3.failed THEN {"_fix_price_anomalies"} ELSE {})
                      \cup (IF s4.failed THEN {"_fix_volume_anomalies"} ELSE {})
                      \cup (IF s6.failed THEN {"_remove_invalid_records"} ELSE {})]

(***************************************************************************)
(* Bounds and input domains of the frame cleaning specification.           *)
(***************************************************************************)
MaxFrame == 2

FrameRows ==
    [Date : {1, 2}, Open : {Num(-6), Num(6)}, High : {Num(6), Num(18)},
     Low : {Num(12)}, Close : {Num(12)}, Volume : {Num(0), Num(12)}]
DroppedColumns == {{}, {"Date"}, {"Open"}, {"High"}, {"Close"}, {"Volume"}}
Restricted(rows, columns) ==
    [i \in DOMAIN rows |-> [c \in columns |-> rows[i][c]]]
CleanFrames ==
    {[columns |-> RequiredColumns \ d,
      rows |-> Restricted(rows, RequiredColumns \ d)] :
         d \in DroppedColumns, rows \in SeqsUpTo(FrameRows, MaxFrame)}

InitCleanFrame ==
    /\ StoreIdle /\ ResolveIdle /\ LimiterIdle /\ CleanIdle /\ ScoreIdle /\ QueueIdle /\ OptimizerIdle
    /\ FetchIdle /\ ScreenIdle /\ ValidateIdle /\ IngestIdle /\ IndicatorIdle
    /\ cleanInput \in CleanFrames
    /\ cleanOutput = <<>>
    /\ cleanErrors = {}
    /\ cleanReturned = FALSE

CleanFrame ==
    /\ ~cleanReturned
    /\ LET res == CleanOhlcvFrame(cleanInput)
       IN  /\ cleanOutput' = res.rows
           /\ cleanErrors' = res.errors
    /\ cleanReturned' = TRUE
    /\ UNCHANGED cleanInput
    /\ UNCHANGED asideCleanFrame

NextCleanFrame == CleanFrame

SpecCleanFrame == InitCleanFrame /\ [][NextCleanFrame]_vars

\* On a frame with every column the steps are those of CleanOhlcvData.
CleanFrameAgrees ==
    cleanReturned /\ cleanInput.columns = RequiredColumns =>
        cleanOutput = CleanOhlcvData(cleanInput.rows) /\ cleanErrors = {}

(***************************************************************************)
(* C24: clean never raises, and when a step of the cleaning has failed it  *)
(* returns the series it was given, the same rows with the same values.    *)
(***************************************************************************)
C24_FailureReturnsInput ==
    cleanReturned /\ cleanErrors # {} => cleanOutput = cleanInput.rows

\* What holds: a failure outside the steps (no Date column) returns the
\* input as it was.
C24_OuterFailureReturnsInput ==
    cleanReturned /\ "clean_ohlcv_data" \in cleanErrors =>
        cleanOutput = cleanInput.rows

\* A row with High below Low came back repaired although the volume step
\* and the removal step had failed.
C24_WitnessPartlyCleaned ==
    /\ cleanReturned
    /\ cleanErrors = {"_fix_volume_anomalies", "_remove_invalid_records"}
    /\ Len(cleanOutput) = Len(cleanInput.rows)
    /\ cleanOutput # cleanInput.rows


(***************************************************************************)
(* C25: under a rate limiter a request is recorded in the window before    *)
(* its callback starts, with the time of the record, and the end of the    *)
(* callback, a failure included, leaves the window as it was.              *)
(***************************************************************************)
C25_RecordedBeforeCallback ==
    [][\A w \in Workers :
          /\ pc[w] # "callback" /\ pc'[w] = "callback" =>
                 /\ Len(requests') = Len(requests) + 1
                 /\ requests'[Len(requests')] = clock
          /\ pc[w] = "callback" /\ pc'[w] # "callback" =>
                 requests' = requests]_vars

\* A callback has raised and the record of its request is still in the
\* window.
C25_Witness ==
    \E w \in Workers :
        /\ callback[w] = "raised" /\ pc[w] = "idle"
        /\ requests # <<>> /\ requests = admitted


(***************************************************************************)
(* C26: bounded burst.  The pairs to update are cut in their order into    *)
(* batches of at most batch_size; at any instant at most max_workers       *)
(* fetches are in progress, all of the current batch; a fetch of a batch   *)
(* starts only when every pair of the batches before it is finished, and a *)
(* batch after the first is submitted only after the sleep.                *)
(***************************************************************************)
BatchOf(i) == (i - 1) \div BatchSize
CurrentBatch ==
    {toUpdate[i] : i \in {j \in DOMAIN toUpdate : BatchOf(j) = BatchOf(batchEnd)}}
EarlierBatches ==
    {toUpdate[i] : i \in {j \in DOMAIN toUpdate : BatchOf(j) < BatchOf(batchEnd)}}
LaterBatches ==
    {toUpdate[i] : i \in {j \in DOMAIN toUpdate : j > batchEnd}}

C26_BurstInvariant ==
    /\ Cardinality(pending) <= BatchSize
    /\ Cardinality(running) <= MaxWorkers
    /\ running \subseteq pending
    /\ pending \subseteq CurrentBatch
    /\ pending # {} =>
           /\ EarlierBatches \subseteq DOMAIN outcome
           /\ \A p \in LaterBatches : attempts[p] = 0

C26_BoundedBurst ==
    /\ []C26_BurstInvariant
    /\ [][batchEnd' > batchEnd =>
              /\ pending = {} /\ running = {}
              /\ batchEnd > 0 => cooled
              /\ pending' = {toUpdate[i] : i \in (batchEnd + 1)..batchEnd'}
              /\ batchEnd' - batchEnd <= BatchSize
              /\ batchEnd' - batchEnd = BatchSize \/ batchEnd' = Len(toUpdate)]_vars

\* The pool is full and a pair of the batch waits for a thread.
C26_Witness ==
    /\ fpc = "running"
    /\ Cardinality(running) = MaxWorkers
    /\ Queued # {}

\* The second batch is being fetched: the first is finished, the sleep done.
C26_WitnessSecondBatch ==
    /\ fpc = "running"
    /\ Len(toUpdate) > BatchSize /\ batchEnd = Len(toUpdate)
    /\ running # {}
    /\ EarlierBatches # {} /\ EarlierBatches \subseteq DOMAIN outcome

(***************************************************************************)
(* C27: within one call fetch_single_pair is started at most once for each *)
(* pair, and a pair in the failures list is neither pending nor running:   *)
(* it is not fetched again.                                                *)
(***************************************************************************)
C27_AtMostOnce ==
    /\ \A p \in DOMAIN attempts : attempts[p] <= 1
    /\ \A i \in DOMAIN failed :
           /\ attempts[failed[i]] = 1
           /\ failed[i] \notin pending
           /\ \A j \in DOMAIN failed : failed[j] = failed[i] => i = j

\* The call has returned with a pair in the failures list whose remote call
\* failed and was made once; the call went over two batches.
C27_Witness ==
    /\ fpc = "returned"
    /\ failed # <<>>
    /\ \E p \in Range(failed) :
           attempts[p] = 1 /\ outcome[p] \in RemoteFailures
    /\ Len(toUpdate) > BatchSize

(***************************************************************************)
(* C28: once a pair is in the failures list of a call, no step of the call *)
(* writes, deletes or changes a row of it, the failing step included, and  *)
(* the resolver gives the pair the same start as before the step.          *)
(***************************************************************************)
RowsOfPair(table, p) == {r \in DOMAIN table : r.pair = p}
StartOf(table, p) ==
    [d \in FetchDaysBacks |-> GetMissingDates(table, {p}, fend, d)]

C28_FailedPairUntouched ==
    [][\A p \in Range(failed') :
          /\ RowsOfPair(store', p) = RowsOfPair(store, p)
          /\ \A r \in RowsOfPair(store, p) : store'[r] = store[r]
          /\ StartOf(store', p) = StartOf(store, p)]_vars

\* A pair that has rows in the store failed, and after it another pair of
\* the call was saved.
C28_Witness ==
    /\ fpc = "returned"
    /\ \E p \in Range(failed), q \in fetched :
           /\ RowsOfPair(store, p) # {}
           /\ RowsOfPair(store, q) # {}
           /\ \E i, j \in DOMAIN toUpdate : i < j /\ toUpdate[i] = p /\ toUpdate[j] = q


(***************************************************************************)
(* C29: step order of an update.  No fetched row is in the store before    *)
(* _validate_and_clean_data has validated its series: the store holds rows *)
(* only once the update is past the validation.                            *)
(***************************************************************************)
C29_ValidatedBeforeWritten == DOMAIN store # {} => ipc = "done"

\* The order the code has: the raw rows are in the store when the fetcher
\* returns, before the adapter validates them, and the adapter's own save
\* comes after the validation.
C29_RawWrittenByFetcher ==
    /\ ipc = "fetched" => DOMAIN store # {} /\ allData = LoadCryptoData(store)
    /\ ipc = "failed" => DOMAIN store = {}

C29_WitnessUnvalidatedRows ==
    /\ ipc = "fetched"
    /\ DOMAIN store # {}
    /\ ~ValidateOhlcvData(Frame(OhlcvOf(allData))).is_valid

(***************************************************************************)
(* C30: cleaning is unconditional.  When the update has persisted a pair's *)
(* enriched rows, clean_ohlcv_data was applied to the pair's series, also  *)
(* when validate_ohlcv_data had rejected it.                               *)
(***************************************************************************)
C30_CleanedWhateverValidation ==
    ipc = "done" /\ allData # <<>> => cleanedPairs = {"X"}

\* What the code does: the series is cleaned exactly when it is valid, and a
\* rejected series is persisted as it was fetched.
C30_CleanedIffValid ==
    ipc = "done" =>
        /\ cleanedPairs = {"X"} <=>
               ValidateOhlcvData(Frame(OhlcvOf(allData))).is_valid
        /\ cleanedPairs = {} /\ saveErrors = {} =>
               \A i \in DOMAIN allData :
                   \E r \in DOMAIN store :
                       r.pair = allData[i].pair /\ r.val = allData[i].val
                           /\ Strptime(r.date) = allData[i].Date

C30_WitnessRejectedPersisted ==
    /\ ipc = "done" /\ cleanedPairs = {} /\ saveErrors = {}
    /\ DOMAIN store # {}


(***************************************************************************)
(* C31: completion-order independence.  The table and the set of failed    *)
(* pairs after the call are those got by saving the frames the futures     *)
(* answered in the order of submission, whatever the order in which the    *)
(* futures completed.                                                      *)
(***************************************************************************)
RECURSIVE SavedInOrder(_, _)
SavedInOrder(table, ps) ==
    IF ps = <<>> THEN table
    ELSE LET p == Head(ps)
             df == Payload(p, Strptime(missing[p]), Strptime(fend), answers[p])
         IN  SavedInOrder(IF p \in DOMAIN answers /\ answers[p] \in PayloadKinds
                          THEN SaveData(table, df).table
                          ELSE table,
                          Tail(ps))

FailedAnswers ==
    {p \in DOMAIN answers : answers[p] \in RemoteFailures \cup {"invalid_range"}}

OrderIndependent ==
    /\ store = SavedInOrder(fstart, toUpdate)
    /\ Range(failed) = FailedAnswers

C31_WitnessRaised ==
    /\ fpc = "raised"
    /\ \E p \in DOMAIN answers :
           answers[p] \in PayloadKinds \ {"repeats_day"} /\ p \notin DOMAIN outcome


(***************************************************************************)
(* The request queue of APIQueueManager (api_queue_manager.py).  A manager *)
(* as constructed has no rate limiter, so _process_request goes straight  *)
(* to the callback.  All requests have the default priority 0.            *)
(***************************************************************************)

\* The values created_at may take; two requests may carry the same one.
Stamps == {1, 2}

\* The largest max_retries a request is given.
MaxRetries == 2

\* retry_delay of a request.
RetryDelay == 1

RetryLimits == 0..MaxRetries

RECURSIVE Pow2(_)
Pow2(n) == IF n <= 0 THEN 1 ELSE 2 * Pow2(n - 1)

\* time.sleep(request.retry_delay * (2 ** (request.retry_count - 1)))
Backoff(count) == RetryDelay * Pow2(count - 1)

\* The entries of request_queue are (priority, created_at, request) tuples
\* in a heapq list.  With equal priority and created_at a comparison of two
\* entries reaches the APIRequest objects, which define no order, and
\* raises TypeError; stamps gives each request's created_at.
Tied(stamps, x, y) == stamps[x] = stamps[y]
Before(stamps, x, y) == stamps[x] < stamps[y]

Swap(heap, i, j) == [heap EXCEPT ![i] = heap[j], ![j] = heap[i]]

\* heapq's siftdown: the entry at pos moves towards startpos while it is
\* less than its parent; positions count from 0 as in the list.
RECURSIVE SiftDown(_, _, _, _)
SiftDown(stamps, heap, startpos, pos) ==
    IF pos <= startpos THEN [heap |-> heap, raised |-> FALSE]
    ELSE LET parentpos == (pos - 1) \div 2
         IN  IF Tied(stamps, heap[pos + 1], heap[parentpos + 1])
             THEN [heap |-> heap, raised |-> TRUE]
             ELSE IF Before(stamps, heap[pos + 1], heap[parentpos + 1])
             THEN SiftDown(stamps, Swap(heap, pos + 1, parentpos + 1), startpos, parentpos)
             ELSE [heap |-> heap, raised |-> FALSE]

\* heapq's siftup: the smaller child moves up until a leaf is reached, then
\* the entry is sifted down from there.
RECURSIVE SiftUp(_, _, _, _)
SiftUp(stamps, heap, startpos, pos) ==
    LET endpos == Len(heap)
        left == 2 * pos + 1
    IN  IF pos >= endpos \div 2 THEN SiftDown(stamps, heap, startpos, pos)
        ELSE IF left + 1 < endpos /\ Tied(stamps, heap[left + 1], heap[left + 2])
        THEN [heap |-> heap, raised |-> TRUE]
        ELSE LET childpos == IF /\ left + 1 < endpos
                                /\ ~Before(stamps, heap[left + 1], heap[left + 2])
                             THEN left + 1 ELSE left
             IN  SiftUp(stamps, Swap(heap, childpos + 1, pos + 1), startpos, childpos)

\* request_queue.put: heappush appends the entry and sifts it down; when a
\* comparison raises the entry stays where it is in the list.
HeapPush(stamps, heap, r) == SiftDown(stamps, Append(heap, r), 0, Len(heap))

\* request_queue.get: heappop takes the last entry off, puts it in place of
\* the first and sifts; when a comparison raises, the first entry has left
\* the list and is returned to nobody.
HeapPop(stamps, heap) ==
    LET n == Len(heap)
        rest == SubSeq(heap, 1, n - 1)
    IN  IF n = 1 THEN [heap |-> <<>>, item |-> heap[1], raised |-> FALSE]
        ELSE LET sifted == SiftUp(stamps, [rest EXCEPT ![1] = heap[n]], 0, 0)
             IN  [heap |-> sifted.heap,
                  item |-> IF sifted.raised THEN "none" ELSE heap[1],
                  raised |-> sifted.raised]

InitQueue == AllIdle

\* submit_request(request): the request enters active_requests and is then
\* put on the queue; a put that raises does so to the caller.
SubmitRequest(r, stamp, limit) ==
    /\ status[r] = "new"
    /\ status' = [status EXCEPT ![r] = "PENDING"]
    /\ createdAt' = [createdAt EXCEPT ![r] = stamp]
    /\ maxRetries' = [maxRetries EXCEPT ![r] = limit]
    /\ activeRequests' = activeRequests \cup {r}
    /\ requestQueue' = HeapPush(createdAt', requestQueue, r).heap
    /\ UNCHANGED <<retryCount, completedRequests, held, invoked, sleeps>>
    /\ UNCHANGED asideQueue

\* _worker_loop: request_queue.get, and the first statement of
\* _process_request, which marks the request PROCESSING.  A get that raises
\* is logged by the loop, which goes on to the next get.
GetRequest(w) ==
    /\ held[w] = "none"
    /\ requestQueue # <<>>
    /\ LET got == HeapPop(createdAt, requestQueue)
       IN  /\ requestQueue' = got.heap
           /\ IF got.raised
              THEN UNCHANGED <<held, status>>
              ELSE /\ held' = [held EXCEPT ![w] = got.item]
                   /\ status' = [status EXCEPT ![got.item] = "PROCESSING"]
    /\ UNCHANGED <<retryCount, maxRetries, createdAt, activeRequests,
                   completedRequests, invoked, sleeps>>
    /\ UNCHANGED asideQueue

\* _process_request when the callback returns: COMPLETED, _move_to_completed.
CallbackReturns(w) ==
    /\ held[w] # "none"
    /\ LET r == held[w]
       IN  /\ invoked' = [invoked EXCEPT ![r] = @ + 1]
           /\ status' = [status EXCEPT ![r] = "COMPLETED"]
           /\ activeRequests' = activeRequests \ {r}
           /\ completedRequests' = completedRequests \cup {r}
    /\ held' = [held EXCEPT ![w] = "none"]
    /\ UNCHANGED <<retryCount, maxRetries, createdAt, requestQueue, sleeps>>
    /\ UNCHANGED asideQueue

\* if request.retry_count < request.max_retries
RetryOnceMore(count, limit) == count <= limit
ShouldRetry(count, limit) == count < limit

\* _process_request when the callback raises: _handle_request_error counts
\* the failure, then either sleeps and puts the request back or marks it
\* FAILED and moves it to completed_requests.  A put that raises is logged
\* by _worker_loop.
CallbackRaises(w) ==
    /\ held[w] # "none"
    /\ LET r == held[w]
           count == retryCount[r] + 1
       IN  /\ invoked' = [invoked EXCEPT ![r] = @ + 1]
           /\ retryCount' = [retryCount EXCEPT ![r] = count]
           /\ IF ShouldRetry(count, maxRetries[r])
              THEN /\ status' = [status EXCEPT ![r] = "RETRYING"]
                   /\ sleeps' = [sleeps EXCEPT ![r] = Append(@, Backoff(count))]
                   /\ requestQueue' = HeapPush(createdAt, requestQueue, r).heap
                   /\ UNCHANGED <<activeRequests, completedRequests>>
              ELSE /\ status' = [status EXCEPT ![r] = "FAILED"]
                   /\ activeRequests' = activeRequests \ {r}
                   /\ completedRequests' = completedRequests \cup {r}
                   /\ UNCHANGED <<sleeps, requestQueue>>
    /\ held' = [held EXCEPT ![w] = "none"]
    /\ UNCHANGED <<maxRetries, createdAt>>
    /\ UNCHANGED asideQueue

\* wait_for_all_completion returns True once active_requests is empty.
WaitForAllCompletion == activeRequests = {}

NextQueue ==
    \/ \E r \in Requests, stamp \in Stamps, limit \in RetryLimits :
          SubmitRequest(r, stamp, limit)
    \/ \E w \in Workers : GetRequest(w)
    \/ \E w \in Workers : CallbackReturns(w)
    \/ \E w \in Workers : CallbackRaises(w)

SpecQueue == InitQueue /\ [][NextQueue]_vars

\* The worker threads keep running and every callback terminates.
WorkersRun ==
    \A w \in Workers :
        /\ WF_vars(GetRequest(w))
        /\ WF_vars(CallbackReturns(w) \/ CallbackRaises(w))

SpecQueueFair == InitQueue /\ [][NextQueue]_vars /\ WorkersRun

(***************************************************************************)
(* C32: a request whose callback fails on every attempt is invoked at     *)
(* most max_retries times, sleeps retry_delay * 2^(k-1) after its k-th    *)
(* failure before it is queued again, and after its last failure is       *)
(* FAILED and in completed_requests, no longer in active_requests; a      *)
(* COMPLETED or FAILED request is never queued or invoked again.          *)
(***************************************************************************)
Terminal(r) == status[r] \in {"COMPLETED", "FAILED"}

AlwaysFailed(r) == invoked[r] = retryCount[r]

BackoffProtocol(r) ==
    /\ \A k \in DOMAIN sleeps[r] : sleeps[r][k] = Backoff(k)
    /\ status[r] = "RETRYING" => Len(sleeps[r]) = retryCount[r]
    /\ r \in Range(requestQueue) /\ retryCount[r] > 0 => Len(sleeps[r]) = retryCount[r]

FailedIsMoved(r) ==
    status[r] = "FAILED" =>
        /\ r \in completedRequests
        /\ r \notin activeRequests
        /\ retryCount[r] >= maxRetries[r]

TerminalIsLeftAlone ==
    /\ \A r \in Requests :
          Terminal(r) => r \notin Range(requestQueue) /\ \A w \in Workers : held[w] # r
    /\ [][\A r \in Requests :
              Terminal(r) => /\ invoked'[r] = invoked[r]
                             /\ status'[r] = status[r]
                             /\ r \notin Range(requestQueue')]_vars

\* The claim as stated: at most max_retries invocations, whatever max_retries.
C32_AtMostMaxRetries ==
    \A r \in Requests :
        AlwaysFailed(r) /\ status[r] # "new" => invoked[r] <= maxRetries[r]

MaxOf2(x, y) == IF x >= y THEN x ELSE y

\* C32 amended: a request that fails on every attempt is invoked at most
\* max(max_retries, 1) times; the backoff, the move to completed_requests
\* and the rest of terminal requests are as the claim says.
C32_RetryProtocol ==
    /\ [](\A r \in Requests :
             /\ AlwaysFailed(r) => invoked[r] <= MaxOf2(maxRetries[r], 1)
             /\ BackoffProtocol(r)
             /\ FailedIsMoved(r))
    /\ TerminalIsLeftAlone

C32_Witness ==
    \E r \in Requests :
        /\ status[r] = "FAILED"
        /\ maxRetries[r] = MaxRetries
        /\ invoked[r] = MaxRetries
        /\ Len(sleeps[r]) = MaxRetries - 1
        /\ r \in completedRequests

C32_WitnessNoRetries ==
    \E r \in Requests :
        status[r] = "FAILED" /\ maxRetries[r] = 0 /\ invoked[r] = 1


(***************************************************************************)
(* C33.  clean_ohlcv_data clamps each row so that its high is the largest  *)
(* of high, low, open and close and its low is the smallest of low, the    *)
(* high the row had before cleaning, open and close.  Stated for the rows  *)
(* of a series that have four prices and a date of their own, and for the  *)
(* row of that date in what the cleaner returned.                          *)
(***************************************************************************)
Priced(r) == ~IsNaN(r.Open) /\ ~IsNaN(r.High) /\ ~IsNaN(r.Low) /\ ~IsNaN(r.Close)

OwnDate(i) == \A k \in DOMAIN raw : raw[k].Date = raw[i].Date => k = i

ClampedHigh(r) == Num(MaxOf({r.High[1], r.Low[1], r.Open[1], r.Close[1]}))

C33_ClampedAsStated ==
    cleanPasses = 1 =>
        \A i \in DOMAIN raw : \A j \in DOMAIN cleaned :
            Priced(raw[i]) /\ OwnDate(i) /\ cleaned[j].Date = raw[i].Date =>
                /\ cleaned[j].High = ClampedHigh(raw[i])
                /\ cleaned[j].Low = Num(MinOf({raw[i].Low[1], raw[i].High[1],
                                               raw[i].Open[1], raw[i].Close[1]}))

\* What the code computes: the high the row came with never lowers its low.
C33_ClampedAsCoded ==
    cleanPasses = 1 =>
        \A i \in DOMAIN raw : \A j \in DOMAIN cleaned :
            Priced(raw[i]) /\ OwnDate(i) /\ cleaned[j].Date = raw[i].Date =>
                /\ cleaned[j].High = ClampedHigh(raw[i])
                /\ cleaned[j].Low = Num(MinOf({raw[i].Low[1], raw[i].Open[1],
                                               raw[i].Close[1]}))

C33_WitnessInverted ==
    /\ cleanPasses = 1
    /\ \E i \in DOMAIN raw : \E j \in DOMAIN cleaned :
          /\ Priced(raw[i]) /\ OwnDate(i) /\ cleaned[j].Date = raw[i].Date
          /\ raw[i].High[1] < MinOf({raw[i].Low[1], raw[i].Open[1], raw[i].Close[1]})
          /\ cleaned[j].Low[1] > raw[i].High[1]


(***************************************************************************)
(* C34.  When the pre-checks pass, the Turtle evaluator emits a system 1   *)
(* (system 2) signal for the latest row exactly when the latest close is   *)
(* strictly greater than the highest High of the 20 (55) days before the   *)
(* latest row.  The rows stand for series whose High 20 (55) rows back is  *)
(* no higher than the highs of the rows between it and the latest row, so  *)
(* high_prev19 (high_prev54) is that highest High.                         *)
(***************************************************************************)
TurtlePreChecks(r) ==
    /\ r.len >= TurtleLookbackDays
    /\ r.Close >= MinPrice
    /\ r.Volume >= MinVolume
    /\ ~IsNaN(r.atr) /\ r.atr[1] > 0

Emitted(signal_type) ==
    \E i \in DOMAIN signals : signals[i].signal_type = signal_type

C34_BreakoutOverPriorDays ==
    detected /\ row.strategy = "turtle" /\ TurtlePreChecks(row) =>
        /\ Emitted("system1_entry") <=> row.Close > row.high_prev19
        /\ Emitted("system2_entry") <=> row.Close > row.high_prev54

\* What the code computes: the latest row's own High is part of both maxima.
C34_BreakoutOverWindow ==
    detected /\ row.strategy = "turtle" /\ TurtlePreChecks(row) =>
        /\ Emitted("system1_entry") <=>
              row.Close > row.high_prev19 /\ row.Close > row.High
        /\ Emitted("system2_entry") <=>
              row.Close > row.high_prev54 /\ row.Close > row.High

C34_WitnessNoBreakout ==
    /\ detected /\ row.strategy = "turtle" /\ TurtlePreChecks(row)
    /\ row.Close > row.high_prev54
    /\ row.High >= row.Close
    /\ signals = <<>>


(***************************************************************************)
(* C35.  In every band of the Turtle score a value exactly on a tier       *)
(* cutoff gets the higher of the two neighbouring tier scores; a 5-day     *)
(* momentum of exactly 0.05, 0.03 or 0.01 scores 25, 20 or 15.             *)
(***************************************************************************)
BreakoutOf(s) == IF s.signal_type = "system1_entry" THEN High20(row) ELSE High55(row)

\* momentum_5d = pct / 100, volume_ratio = tenths / 10, the close pct per
\* cent above the breakout level
MomentumIs(pct) == 100 * (row.Close - row.close_5) = pct * row.close_5
VolumeRatioIs(tenths) == 10 * row.Volume = tenths * row.volume_20
AboveBreakoutIs(s, pct) == 100 * (row.Close - BreakoutOf(s)) = pct * BreakoutOf(s)

VolumeCutoffsTakeHigher(s) ==
    /\ VolumeRatioIs(20) => s.volume_score = 35
    /\ VolumeRatioIs(15) => s.volume_score = 28
    /\ VolumeRatioIs(12) => s.volume_score = 20

BreakoutCutoffsTakeHigher(s) ==
    /\ AboveBreakoutIs(s, 2) => s.breakout_score = 40
    /\ AboveBreakoutIs(s, 5) => s.breakout_score = 30
    /\ AboveBreakoutIs(s, 10) => s.breakout_score = 15

C35_CutoffTakesHigher ==
    detected /\ row.strategy = "turtle" =>
        \A i \in DOMAIN signals :
            /\ MomentumIs(5) => signals[i].momentum_score = 25
            /\ MomentumIs(3) => signals[i].momentum_score = 20
            /\ MomentumIs(1) => signals[i].momentum_score = 15
            /\ VolumeCutoffsTakeHigher(signals[i])
            /\ BreakoutCutoffsTakeHigher(signals[i])

\* What the code computes: the volume and breakout bands give a cutoff the
\* higher score, the momentum band the lower one.
C35_MomentumCutoffTakesLower ==
    detected /\ row.strategy = "turtle" =>
        \A i \in DOMAIN signals :
            /\ MomentumIs(5) => signals[i].momentum_score = 20
            /\ MomentumIs(3) => signals[i].momentum_score = 15
            /\ MomentumIs(1) => signals[i].momentum_score = 8
            /\ VolumeCutoffsTakeHigher(signals[i])
            /\ BreakoutCutoffsTakeHigher(signals[i])

C35_WitnessMomentumCutoff ==
    /\ detected /\ row.strategy = "turtle"
    /\ MomentumIs(5)
    /\ \E i \in DOMAIN signals :
          /\ signals[i].momentum_score = 20
          /\ AboveBreakoutIs(signals[i], 5) /\ signals[i].breakout_score = 30
          /\ VolumeRatioIs(20) /\ signals[i].volume_score = 35


(***************************************************************************)
(* C36.  Each of the three evaluators emits a signal only if the           *)
(* pre-check passed (enough rows, the latest row's price and volume at or  *)
(* above the floors) and the firing condition holds on the latest row; a   *)
(* failed pre-check gives the empty list, and a condition that held only   *)
(* on earlier rows gives no signal.                                        *)
(***************************************************************************)
EnoughRows(r) ==
    IF r.strategy = "turtle" THEN r.len >= TurtleLookbackDays
    ELSE IF r.strategy = "bnf" THEN r.len >= BnfMinPeriods
    ELSE r.len >= TrendPeriod

FloorsMet(r) == r.Close >= MinPrice /\ r.Volume >= MinVolume

FiresOnLatest(r) ==
    IF r.strategy = "turtle"
    THEN r.Close > r.High /\ (r.Close > r.high_prev19 \/ r.Close > r.high_prev54)
    ELSE IF r.strategy = "bnf"
    THEN ~IsNaN(r.ma25) /\ 100 * (r.Close - r.ma25[1]) <= -20 * r.ma25[1]
    ELSE FiveConditions(r)

C36_WitnessEmitted ==
    detected /\ row.strategy = "coiled_spring" /\ row.fired_before /\ signals # <<>>

C36_WitnessFailedPreCheck ==
    detected /\ FiresOnLatest(row) /\ ~FloorsMet(row) /\ signals = <<>>


(***************************************************************************)
(* C37.  While the worker threads run and callbacks terminate, every       *)
(* request submitted to the queue manager eventually is COMPLETED or       *)
(* FAILED and has left active_requests, so that wait_for_all_completion    *)
(* eventually returns True.                                                *)
(***************************************************************************)
C37_EveryRequestCompletes ==
    /\ \A r \in Requests :
          (r \in activeRequests) ~> (Terminal(r) /\ r \notin activeRequests)
    /\ (activeRequests # {}) ~> WaitForAllCompletion

\* A request that is neither queued nor with a worker, and still active.
Lost(r) ==
    /\ r \in activeRequests
    /\ r \notin Range(requestQueue)
    /\ \A w \in Workers : held[w] # r

\* What the code gives: every request completes unless a get dropped it.
C37_CompletesUnlessLost ==
    \A r \in Requests :
        (r \in activeRequests) ~> ((Terminal(r) /\ r \notin activeRequests) \/ Lost(r))

C37_WitnessLost ==
    \E r \in Requests :
        /\ Lost(r) /\ status[r] = "PENDING"
        /\ requestQueue = <<>> /\ \A w \in Workers : held[w] = "none"


(***************************************************************************)
(* C38.  Every (instrument, start) entry the gap resolver produces for an  *)
(* asOf date, with a lookback of at least one day, has start < asOf, so    *)
(* that the fetcher's start >= end test rejects no range the resolver      *)
(* produced.                                                               *)
(***************************************************************************)
C38_StartBeforeAsOf ==
    resolved.valid /\ resolved.days >= 1 =>
        \A p \in DOMAIN resolved.result :
            Strptime(resolved.result[p]) < Strptime(resolved.asOf)

\* What the code gives: the start is never after asOf, and it is asOf itself
\* exactly for a pair whose rows reach the day before asOf.
C38_StartUpToAsOf ==
    resolved.valid /\ resolved.days >= 1 =>
        \A p \in DOMAIN resolved.result :
            /\ Strptime(resolved.result[p]) <= Strptime(resolved.asOf)
            /\ Strptime(resolved.result[p]) = Strptime(resolved.asOf)
                  <=> /\ resolved.latest[p] # NoDate
                      /\ Strptime(resolved.latest[p]) = Strptime(resolved.asOf) - 1

C38_WitnessStartIsAsOf ==
    /\ resolved.valid /\ resolved.days >= 1
    /\ \E p \in DOMAIN resolved.result : resolved.result[p] = resolved.asOf


(***************************************************************************)
(* C39.  For a series whose latest row has High >= Close, the Turtle       *)
(* evaluator (calculate_indicators, then detect_signals) emits no signal   *)
(* for either system, whatever the earlier rows are.                       *)
(***************************************************************************)
C39_NoSignalUnderOwnHigh ==
    detected /\ row.strategy = "turtle" /\ row.High >= row.Close => signals = <<>>

C39_Witness ==
    /\ detected /\ row.strategy = "turtle"
    /\ row.len >= TurtleLookbackDays /\ ~IsNaN(row.atr) /\ row.atr[1] > 0
    /\ row.Volume >= MinVolume
    /\ row.High = 110 /\ row.Close = 108
    /\ row.Close > row.high_prev19 /\ row.Close > row.high_prev54
    /\ signals = <<>>


(***************************************************************************)
(* ConcurrentOptimizer.execute_batch (concurrent_optimizer.py): the tasks  *)
(* are put on the queue of a temporary executor, execute_tasks hands the   *)
(* queued tasks to the pool and collects the futures in that order, and    *)
(* the executor is destroyed.  The tasks of a batch carry equal priority   *)
(* and increasing created_at, so the queue gives them back in the order    *)
(* of the list.  A task's function returns, raises, or runs past the       *)
(* task's timeout.                                                         *)
(***************************************************************************)

\* The most tasks one batch holds, and the most the optimizer is given in all.
MaxTasks == 2
MaxSubmitted == 3

\* max_retries of a task that sets none.
DefaultMaxRetries == 3

Outcomes == {"returns", "raises", "times_out"}
Tasks == [outcome : Outcomes, max_retries : {0, DefaultMaxRetries}, retry_count : {0}]
TaskLists == SeqsUpTo(Tasks, MaxTasks)

InitOptimizer == AllIdle

\* execute_batch up to the call of execute_tasks: an empty list returns []
\* at once; otherwise create_executor and submit_task for every task.
ExecuteBatch(ts) ==
    /\ opc \in {"idle", "returned"}
    /\ stats.total_tasks + Len(ts) <= MaxSubmitted
    /\ tasks' = ts
    /\ statsBefore' = stats
    /\ stats' = [stats EXCEPT !.total_tasks = @ + Len(ts)]
    /\ taskQueue' = [i \in 1..Len(ts) |-> i]
    /\ futureList' = <<>>
    /\ collected' = 0
    /\ results' = <<>>
    /\ opc' = IF ts = <<>> THEN "returned" ELSE "submitting"
    /\ UNCHANGED asideOptimizer

\* execute_tasks, one turn of the submitting loop: get_nowait and
\* executor.submit.
SubmitTask ==
    /\ opc = "submitting"
    /\ taskQueue # <<>>
    /\ futureList' = Append(futureList, Head(taskQueue))
    /\ taskQueue' = Tail(taskQueue)
    /\ UNCHANGED <<opc, tasks, collected, results, stats, statsBefore>>
    /\ UNCHANGED asideOptimizer

\* The submitting loop ends when the queue is empty.
Collecting ==
    \/ opc = "collecting"
    \/ opc = "submitting" /\ taskQueue = <<>>

\* if task.retry_count < task.max_retries: ... else (no retry left)
NoRetryLeft(task) == ~(task.retry_count < task.max_retries)

\* execute_tasks, one turn of the collecting loop: future.result(timeout)
\* returns, or raises what the function raised or TimeoutError; a failed
\* task with retries left goes back on the queue, which this call does not
\* read again.
CollectResult ==
    /\ Collecting
    /\ collected < Len(futureList)
    /\ LET i == futureList[collected + 1]
           task == tasks[i]
       IN  IF task.outcome = "returns"
           THEN /\ results' = Append(results, [task_id |-> i, success |-> TRUE])
                /\ stats' = [stats EXCEPT !.completed_tasks = @ + 1]
                /\ UNCHANGED <<tasks, taskQueue>>
           ELSE IF NoRetryLeft(task)
           THEN /\ results' = Append(results, [task_id |-> i, success |-> FALSE])
                /\ stats' = [stats EXCEPT !.failed_tasks = @ + 1]
                /\ UNCHANGED <<tasks, taskQueue>>
           ELSE /\ tasks' = [tasks EXCEPT ![i].retry_count = @ + 1]
                /\ taskQueue' = Append(taskQueue, i)
                /\ UNCHANGED <<results, stats>>
    /\ collected' = collected + 1
    /\ opc' = "collecting"
    /\ UNCHANGED <<futureList, statsBefore>>
    /\ UNCHANGED asideOptimizer

\* execute_tasks returns results; execute_batch destroys the executor and
\* its queue and returns them.
ReturnBatch ==
    /\ Collecting
    /\ collected = Len(futureList)
    /\ taskQueue' = <<>>
    /\ opc' = "returned"
    /\ UNCHANGED <<tasks, futureList, collected, results, stats, statsBefore>>
    /\ UNCHANGED asideOptimizer

NextOptimizer ==
    \/ \E ts \in TaskLists : ExecuteBatch(ts)
    \/ SubmitTask
    \/ CollectResult
    \/ ReturnBatch

SpecOptimizer == InitOptimizer /\ [][NextOptimizer]_vars

(***************************************************************************)
(* C40.  execute_batch returns exactly one result record, success or       *)
(* failure, for every task it was given, tasks whose function raises or    *)
(* times out included, and completed_tasks + failed_tasks has then grown   *)
(* by the number of tasks submitted.                                       *)
(***************************************************************************)
RecordsOf(i) == {k \in DOMAIN results : results[k].task_id = i}

Processed(s) == s.completed_tasks + s.failed_tasks

C40_OneRecordPerTask ==
    opc = "returned" =>
        /\ \A i \in DOMAIN tasks : Cardinality(RecordsOf(i)) = 1
        /\ Processed(stats) = Processed(statsBefore) + Len(tasks)

\* What the code gives: a record for each task that returned or failed with
\* no retry left, none for a task that failed with retries left, and the
\* two counters grown by the number of records.
C40_RecordUnlessRequeued ==
    opc = "returned" =>
        /\ \A i \in DOMAIN tasks :
              Cardinality(RecordsOf(i)) =
                  IF tasks[i].outcome = "returns" \/ tasks[i].max_retries = 0
                  THEN 1 ELSE 0
        /\ \A k \in DOMAIN results :
              results[k].success <=> tasks[results[k].task_id].outcome = "returns"
        /\ Processed(stats) = Processed(statsBefore) + Len(results)

C40_WitnessNoRecord ==
    /\ opc = "returned"
    /\ Len(tasks) = MaxTasks
    /\ tasks[1].outcome = "raises" /\ tasks[1].retry_count = 1
    /\ tasks[2].outcome = "returns"
    /\ Len(results) = 1

=============================================================================
